---- MODULE Spec2Model ----
(***************************************************************************)
(* A model of the Crawl HTTP client: the keep-alive connection pool, the   *)
(* request executor with its redirect recursion, the retry wrapper, the    *)
(* batch executor, the response reader and the segmented downloader.       *)
(*                                                                         *)
(* Each subsystem has its own specification over the one variable vector:  *)
(*   Spec       concurrent executors on one client's pool                  *)
(*   ExecSpec   one executor with every request option, cleanup_idle, time *)
(*   RetrySpec  execute_with_retry                                         *)
(*   BatchSpec  batch_request                                              *)
(*   ReadSpec   read_response on the connection's blocking socket, and     *)
(*              ReadFairSpec, the same with the reader and the clock fair  *)
(*   DownSpec   parallel_download and its caller                           *)
(*   HappySpec  HappyEyeballs::connect                                     *)
(*   LimiterSpec  the RateLimiter and its callers                          *)
(*   DnsSpec    the DNSCache, its callers and the executor's own lookup    *)
(*   ChunkedSpec  a chunked response: the server's framing, read_response  *)
(*              and parse_response                                         *)
(*   UrlSpec    URL::parse and URL::to_string                              *)
(*   ConfigSpec  one executor on a client whose set_max_connections is     *)
(*              called                                                     *)
(*   StatsSpec  threads in Statistics::record_request                      *)
(*   LongRetrySpec  execute_with_retry with max_retries near the width of  *)
(*              int                                                        *)
(* A specification leaves the other subsystems' variables at rest.         *)
(***************************************************************************)
EXTENDS Integers, Sequences, FiniteSets, TLC

(***************************************************************************)
(* Bounds of the model.                                                    *)
(***************************************************************************)
NumExec == 2
MaxFd == 2
MaxConn == 2
MaxConnections == 2
IdleTimeout == 1
MaxAddrs == 2
MaxRedirects == 2
MaxRetries == 2
MaxBatch == 3
MaxParallel == 3
ReadTimeout == 2
MaxBody == 2
MaxPending == 2
MaxLength == 3
MaxPipes == 3
NumCallers == 2
TicksPerSecond == 10
MaxClock == 5
MaxGrants == 12
NumResolvers == 2
MaxDnsClock == 3
MaxLookups == 3
MaxWords == 4
MaxTail == 4
NumRecorders == 2
MaxRecords == 3
MaxLatency == 2

Execs == 1..NumExec
Fds == 1..MaxFd
ConnIds == 1..MaxConn

(***************************************************************************)
(* URLs the requests and the Location headers name. use_tls is             *)
(* (scheme = "https"); the pool key is (host, port, use_tls).              *)
(***************************************************************************)
Urls == { [scheme |-> "http", host |-> "a", port |-> 80],
          [scheme |-> "https", host |-> "a", port |-> 443] }

UseTls(u) == u.scheme = "https"

\* the key is the host alone
PoolKeyHostOnly(host, port, tls) == <<host, 0, FALSE>>

PoolKey(host, port, tls) == <<host, port, tls>>

Keys == { PoolKey(u.host, u.port, UseTls(u)) : u \in Urls }

NoUrl == [scheme |-> "", host |-> "", port |-> 0]

(***************************************************************************)
(* What an attempt's response carries: its status (0: no parsable          *)
(* response) and the URL of a parsable "Location" header, or NoUrl.        *)
(***************************************************************************)
Statuses == {0, 200, 302}

VARIABLES
    fdt,         \* OS descriptor table: per fd, the socket it refers to and its peer's state
    badClose,    \* some close() hit a descriptor that was closed or reused for another socket
    conns,       \* the PooledConnection objects: socket_fd, tls, in_use, last_used (as an age)
    pools,       \* ConnectionPool::pools_ : key -> list of connections
    ex,          \* the executors (threads inside execute_request)
    destroyed,   \* ~ConnectionPool has run
    lastOp       \* the last pool operation, when it is a release(host, port, c) or
                 \* the acquire that came next: c, c's socket_fd, whether the pool
                 \* was at capacity, what c's probe gives at the acquire, its result

VARIABLES
    rt           \* execute_with_retry: one call's state

VARIABLES
    bt           \* batch_request: one call's state

VARIABLES
    rd           \* read_response: one call's state

VARIABLES
    dl           \* parallel_download and its caller: one run's state

VARIABLES
    he           \* HappyEyeballs::connect: one call's state

VARIABLES
    rl           \* the RateLimiter and its callers

VARIABLES
    dc,          \* the DNSCache and the system resolver
    ck,          \* a chunked response on its way from the server to parse_response
    ur,          \* a string given to URL::parse, and what comes back
    maxAsked,    \* the argument of the last HTTPClient::set_max_connections (0: no call)
    sx           \* the Statistics object's request counters and the threads recording

vars == <<fdt, badClose, conns, pools, ex, destroyed, lastOp, rt, bt, rd, dl, he, rl, dc, ck, ur,
          maxAsked, sx>>

(***************************************************************************)
(* The subsystems at rest.                                                 *)
(***************************************************************************)
\* a descriptor that is not open
ClosedFd == [sock |-> 0, peer |-> "none"]

\* PooledConnection(): socket_fd(-1), in_use(false), no tls, last_used the epoch
\* (age: time since last_used, counted up to the idle timeout; rel: the host,
\* port and TLS flag the connection was last released under)
NoConn == [fd |-> -1, tls |-> FALSE, inUse |-> FALSE, age |-> IdleTimeout, rel |-> <<>>]

\* errors, created, requests: what the current invocation of execute_request
\* has recorded with stats_.record_error, record_connection(false) and
\* record_request; evicted: its acquire took dead connections out of the
\* pool; wrote: what its sends put on the wire
IdleExec == [pc |-> "idle", url |-> NoUrl, follow |-> FALSE, maxRedir |-> 0,
             maxRedir0 |-> 0, conn |-> 0, sfd |-> 0, sock |-> 0, addrs |-> 0,
             fromPool |-> FALSE, status |-> 0, loc |-> NoUrl,
             redirectCount |-> 0, frames |-> 0, followed |-> 0,
             errors |-> <<>>, created |-> 0, requests |-> 0,
             evicted |-> FALSE, wrote |-> "none"]

NoOp == [op |-> "none", key |-> <<>>, conn |-> 0, fd |-> 0, atCap |-> FALSE,
         live |-> FALSE, res |-> 0, gone |-> {}]

PoolRest ==
    /\ fdt = [f \in Fds |-> ClosedFd]
    /\ badClose = FALSE
    /\ conns = [c \in ConnIds |-> NoConn]
    /\ pools = [k \in Keys |-> <<>>]
    /\ ex = [t \in Execs |-> IdleExec]
    /\ destroyed = FALSE
    /\ lastOp = NoOp

\* no call of execute_with_retry is in progress
NoRetry == [pc |-> "off", maxRetries |-> 0, backoff |-> FALSE, delay |-> 0, attempts |-> 0,
            hist |-> <<>>, sleeps |-> <<>>, retryRecs |-> 0, exceededRecs |-> 0,
            ret |-> [status |-> 0, attempt |-> 0]]

RetryRest == rt = NoRetry

\* no call of batch_request is in progress
NoBatch == [pc |-> "off", n |-> 0, p |-> 0, idx |-> 0, futures |-> <<>>,
            completed |-> {}, responses |-> <<>>, cursor |-> 0, spins |-> 0]

BatchRest == bt = NoBatch
\* no call of read_response is in progress
NoRead == [pc |-> "off", contentLength |-> 0, hasLength |-> FALSE, headers |-> FALSE,
           idle |-> 0, inbuf |-> 0, peer |-> "open", quiet |-> 0, received |-> 0,
           why |-> "none", late |-> FALSE, slow |-> FALSE, elapsed |-> 0,
           tls |-> FALSE, layer |-> "none"]

ReadRest == rd = NoRead

\* no parallel download is in progress
NoDownload == [pc |-> "off", contentLength |-> 0, numPipes |-> 0,
               workers |-> <<>>, parts |-> <<>>, anyFailed |-> FALSE,
               result |-> <<>>, status |-> 0, order |-> <<>>]

DownRest == dl = NoDownload

\* no call of HappyEyeballs::connect is in progress
NoDial == [pc |-> "off", v6 |-> <<>>, v4 |-> <<>>, timeout |-> 0, now |-> 0,
           phase |-> 0, addrs |-> <<>>, ptimeout |-> 0, pstart |-> 0, i |-> 0,
           socks |-> <<>>, stray |-> 0, sockFailed |-> FALSE, result |-> 0]

HappyRest == he = NoDial

\* no RateLimiter is constructed
NoLimiter == [pc |-> "off", rate |-> [n |-> 0, d |-> 1], burst |-> 0, interval |-> 0,
              tokens |-> 0, lastRefill |-> 0, now |-> 0, fresh |-> FALSE,
              callers |-> [t \in 1..NumCallers |-> "idle"], grants |-> <<>>]

LimiterRest == rl = NoLimiter

\* no DNSCache is constructed: HTTPClient::Impl::dns_cache_ is null
NoDns == [pc |-> "off", ttl |-> 0, clock |-> 0, cache |-> <<>>, hits |-> 0, misses |-> 0,
          calls |-> 0, stored |-> <<>>, requested |-> {},
          th |-> [t \in 1..NumResolvers |-> [pc |-> "idle", host |-> "", port |-> 0]],
          last |-> [op |-> "other", t |-> 0, host |-> "", port |-> 0, ret |-> <<>>, hit |-> FALSE]]

DnsRest == dc = NoDns

\* no chunked response is on its way
NoChunked == [pc |-> "off", name |-> <<>>, chunked |-> FALSE, body |-> <<>>,
              rest |-> <<>>, stream |-> <<>>, received |-> 0, parsed |-> <<>>]

ChunkedRest == ck = NoChunked

\* URL::parse has not been called
NoParse == [pc |-> "off", input |-> <<>>, result |-> [kind |-> "none"],
            text |-> <<>>, again |-> [kind |-> "none"]]

UrlRest == ur = NoParse

\* set_max_connections has not been called
ConfigRest == maxAsked = 0

\* min_latency_ms_{999999}
NoMinLatency == 999999

\* Statistics(): the atomics' initial values; no thread is in record_request
\* (calls, lats: the calls made and their latencies; raced: a
\* compare_exchange found the value changed by another thread)
NoStats == [total |-> 0, min |-> NoMinLatency, max |-> 0,
            th |-> [t \in 1..NumRecorders |-> [pc |-> "idle", lat |-> 0, cur |-> 0]],
            calls |-> 0, lats |-> {}, raced |-> FALSE]

StatsRest == sx = NoStats

(***************************************************************************)
(* The OS descriptor table.  A socket is named by the connection made (or  *)
(* being made) on it.                                                      *)
(***************************************************************************)
FreeFds(fds) == { f \in Fds : fds[f].sock = 0 }

\* socket(): the lowest-numbered free descriptor, -1 when none is free
LowestFree(fds) ==
    IF FreeFds(fds) = {} THEN -1
    ELSE CHOOSE f \in FreeFds(fds) : \A g \in FreeFds(fds) : f <= g

\* ::close(fd): whatever socket the descriptor refers to now is closed
CloseFd(fds, fd) == IF fd \in Fds THEN [fds EXCEPT ![fd] = ClosedFd] ELSE fds

\* ::close(fd) by the owner of socket s does not close s: the descriptor is
\* closed already (EBADF) or has been reused for another socket
BadCloseOf(fds, fd, s) == fd \notin Fds \/ fds[fd].sock # s

\* recv(fd, buf, 1, MSG_PEEK | MSG_DONTWAIT) is EAGAIN or > 0: not 0, not a hard error
ProbeLive(fds, fd) ==
    /\ fd \in Fds
    /\ fds[fd].sock # 0
    /\ fds[fd].peer = "open"

(***************************************************************************)
(* Connection objects are shared_ptr-owned: one that neither a pool list   *)
(* nor an executor refers to is freed, and its name can be used again once *)
(* no descriptor refers to its socket.                                     *)
(***************************************************************************)
Range(s) == { s[i] : i \in 1..Len(s) }

Referenced(c, p, e) ==
    \/ \E k \in Keys : c \in Range(p[k])
    \/ \E t \in Execs : e[t].conn = c \/ e[t].sock = c

Gc(cs, p, e) == [c \in ConnIds |-> IF Referenced(c, p, e) THEN cs[c] ELSE NoConn]

FreeConns(fds, p, e) ==
    { c \in ConnIds : ~Referenced(c, p, e) /\ \A f \in Fds : fds[f].sock # c }

(***************************************************************************)
(* ConnectionPool                                                          *)
(***************************************************************************)
RemoveAt(s, i) == [j \in 1..(Len(s) - 1) |-> IF j < i THEN s[j] ELSE s[j + 1]]

RECURSIVE SumLen(_, _)
SumLen(p, ks) ==
    IF ks = {} THEN 0
    ELSE LET k == CHOOSE x \in ks : TRUE IN Len(p[k]) + SumLen(p, ks \ {k})

\* total_conns of release: the entries of every key's list
TotalConns(p) == SumLen(p, Keys)

\* acquire's scan of one key's list from entry i down to the oldest: in-use
\* entries are skipped, a dead one is closed and erased, the first live one is
\* returned (res = 0: nullptr)
RECURSIVE AcquireScan(_, _, _, _)
AcquireScan(i, pool, fds, bad) ==
    IF i = 0 THEN [pool |-> pool, fds |-> fds, bad |-> bad, res |-> 0]
    ELSE LET c == pool[i] IN
         IF conns[c].inUse THEN AcquireScan(i - 1, pool, fds, bad)
         ELSE IF ~ProbeLive(fds, conns[c].fd)
              THEN AcquireScan(i - 1, RemoveAt(pool, i), CloseFd(fds, conns[c].fd),
                               bad \/ BadCloseOf(fds, conns[c].fd, c))
              ELSE [pool |-> pool, fds |-> fds, bad |-> bad, res |-> c]

\* acquire starts at the newest entry
AcquireFrom(pool, fds, bad) == AcquireScan(Len(pool), pool, fds, bad)

\* release: whether the released connection is closed instead of pooled
AtCapacity(p) == TotalConns(p) >= MaxConnections

\* release: where the connection goes in the key's list
ReleaseIntoFront(pool, c) == <<c>> \o pool

ReleaseInto(pool, c) == Append(pool, c)

\* the predicate removes in-use entries too
IdleExpiredInUse(c) == conns[c].age >= IdleTimeout

\* cleanup_idle's predicate on one entry
IdleExpired(c) == ~conns[c].inUse /\ conns[c].age >= IdleTimeout

\* ::close on the socket_fd of each entry of cs, in order
RECURSIVE CloseEach(_, _, _)
CloseEach(cs, fds, bad) ==
    IF cs = <<>> THEN [fds |-> fds, bad |-> bad]
    ELSE CloseEach(Tail(cs), CloseFd(fds, conns[Head(cs)].fd),
                   bad \/ BadCloseOf(fds, conns[Head(cs)].fd, Head(cs)))

RECURSIVE Flatten(_, _)
Flatten(p, ks) ==
    IF ks = {} THEN <<>>
    ELSE LET k == CHOOSE x \in ks : TRUE IN p[k] \o Flatten(p, ks \ {k})

\* the entries cleanup_idle removes from a list, and those it keeps
ExpiredOf(pool) == SelectSeq(pool, IdleExpired)

KeptOf(pool) == SelectSeq(pool, LAMBDA c : ~IdleExpired(c))

(***************************************************************************)
(* HTTPClient::Impl::execute_request, one step per pool operation or       *)
(* system call on the shared descriptor table.                             *)
(* pc: idle, acquire, dial, poll, tls, send, release, done.                *)
(***************************************************************************)
KeyOfReq(e) == PoolKey(e.url.host, e.url.port, UseTls(e.url))

\* the redirect test made after the release
FollowsRedirectOneMore(follow, status, loc, maxRedir) ==
    /\ follow
    /\ status >= 300 /\ status < 400
    /\ loc # NoUrl
    /\ maxRedir >= 0

FollowsRedirect(follow, status, loc, maxRedir) ==
    /\ follow
    /\ status >= 300 /\ status < 400
    /\ loc # NoUrl
    /\ maxRedir > 0

\* the frames of the redirect recursion return: each does resp.redirect_count++
RECURSIVE Unwind(_, _)
Unwind(frames, rc) == IF frames = 0 THEN rc ELSE Unwind(frames - 1, rc + 1)

\* execute_request returns a response with status st to its caller
Returned(e, st, l) ==
    [e EXCEPT !.status = st, !.loc = l,
              !.redirectCount = Unwind(e.frames, 0), !.frames = 0,
              !.conn = 0, !.sfd = 0, !.sock = 0, !.addrs = 0,
              !.url = NoUrl, !.maxRedir = 0, !.fromPool = FALSE,
              !.wrote = "none", !.pc = "done"]

\* the failure is returned and no error kind is recorded
FailedUnrecorded(e, kind) == Returned(e, 0, NoUrl)

\* stats_.record_error(kind), then return Response{status 0}
Failed(e, kind) == [Returned(e, 0, NoUrl) EXCEPT !.errors = Append(@, kind)]

\* the address loop after one more address is used up; with none left fd < 0:
\* "connection_failed", Response{status 0}
NextAddress(e) ==
    IF e.addrs > 1
    THEN [e EXCEPT !.addrs = e.addrs - 1, !.sfd = 0, !.sock = 0, !.pc = "dial"]
    ELSE Failed(e, "connection_failed")

\* the caller (HTTPClient::request) enters execute_request
Start(t, u, f, mr) ==
    /\ ~destroyed
    /\ ex[t].pc \in {"idle", "done"}
    /\ ex' = [ex EXCEPT ![t] = [IdleExec EXCEPT !.pc = "acquire", !.url = u,
                                 !.follow = f, !.maxRedir = mr, !.maxRedir0 = mr]]
    /\ UNCHANGED <<fdt, badClose, conns, pools, destroyed, lastOp>>

\* pool_.acquire(host, port, use_tls), under the pool lock; when it returns
\* nullptr, getaddrinfo gives n addresses (0: it failed)
PoolAcquire(t, n) ==
    /\ ex[t].pc = "acquire"
    /\ LET k == KeyOfReq(ex[t])
           r == AcquireFrom(pools[k], fdt, badClose)
           rel == IF lastOp.op = "release" /\ lastOp.key = k THEN lastOp.conn ELSE 0
           swept == IF lastOp.op = "cleanup" THEN {g \in lastOp.gone : g.key = k} ELSE {}
       IN /\ pools' = [pools EXCEPT ![k] = r.pool]
          /\ fdt' = r.fds
          /\ badClose' = r.bad
          /\ lastOp' = IF rel # 0
                       THEN [op |-> "acquire", key |-> k, conn |-> rel,
                             fd |-> lastOp.fd, atCap |-> lastOp.atCap,
                             live |-> ProbeLive(fdt, lastOp.fd), res |-> r.res,
                             gone |-> {}]
                       ELSE IF swept # {}
                       THEN [NoOp EXCEPT !.op = "acquire_swept", !.key = k,
                                         !.res = r.res, !.gone = swept]
                       ELSE NoOp
          /\ IF r.res # 0
             THEN /\ n = 0
                  /\ ex' = [ex EXCEPT ![t].conn = r.res, ![t].fromPool = TRUE,
                                      ![t].evicted = Len(r.pool) < Len(pools[k]),
                                      ![t].pc = "send"]
                  /\ conns' = Gc([conns EXCEPT ![r.res].inUse = TRUE, ![r.res].age = 0],
                                 pools', ex')
             ELSE /\ ex' = [ex EXCEPT ![t] =
                              LET e == [ex[t] EXCEPT
                                           !.evicted = Len(r.pool) < Len(pools[k])]
                              IN IF n > 0
                                 THEN [e EXCEPT !.addrs = n, !.pc = "dial"]
                                 ELSE Failed(e, "connection_failed")]
                  /\ conns' = Gc(conns, pools', ex')
    /\ UNCHANGED destroyed

\* socket() and connect() for the next address; sfd < 0 (no descriptor or no
\* memory left) skips the address
DialSocket(t) ==
    /\ ex[t].pc = "dial"
    /\ LET free == FreeConns(fdt, pools, ex)
           sfd == IF free # {} THEN LowestFree(fdt) ELSE -1
           c == CHOOSE x \in free : \A y \in free : x <= y
       IN IF sfd < 0
          THEN /\ ex' = [ex EXCEPT ![t] = NextAddress(ex[t])]
               /\ UNCHANGED fdt
          ELSE /\ fdt' = [fdt EXCEPT ![sfd] = [sock |-> c, peer |-> "open"]]
               /\ ex' = [ex EXCEPT ![t].sfd = sfd, ![t].sock = c, ![t].pc = "poll"]
    /\ UNCHANGED <<badClose, conns, pools, destroyed, lastOp>>

\* poll(POLLOUT, 10 s) and SO_ERROR: the attempt wins and its socket becomes
\* the new PooledConnection (in_use, last_used unset), or the socket is closed;
\* without TLS, record_connection(false) comes next
DialPoll(t, ok) ==
    /\ ex[t].pc = "poll"
    /\ LET sfd == ex[t].sfd
           c == ex[t].sock
       IN IF ok
          THEN /\ ex' = [ex EXCEPT ![t].conn = c, ![t].sfd = 0, ![t].sock = 0,
                                   ![t].addrs = 0,
                                   ![t].created = IF UseTls(ex[t].url) THEN @ ELSE @ + 1,
                                   ![t].pc = IF UseTls(ex[t].url) THEN "tls" ELSE "send"]
               /\ conns' = [conns EXCEPT ![c] = [fd |-> sfd, tls |-> UseTls(ex[t].url),
                                                 inUse |-> TRUE, age |-> IdleTimeout,
                                                 rel |-> <<>>]]
               /\ UNCHANGED <<fdt, badClose>>
          ELSE /\ fdt' = CloseFd(fdt, sfd)
               /\ badClose' = (badClose \/ BadCloseOf(fdt, sfd, c))
               /\ ex' = [ex EXCEPT ![t] = NextAddress(ex[t])]
               /\ UNCHANGED conns
    /\ UNCHANGED <<pools, destroyed, lastOp>>

\* conn->tls->handshake(), then record_connection(false); on failure
\* ::close(fd), "tls_handshake_failed"
TlsHandshake(t, ok) ==
    /\ ex[t].pc = "tls"
    /\ LET c == ex[t].conn IN
       IF ok
       THEN /\ ex' = [ex EXCEPT ![t].created = @ + 1, ![t].pc = "send"]
            /\ UNCHANGED <<fdt, badClose, conns>>
       ELSE /\ fdt' = CloseFd(fdt, conns[c].fd)
            /\ badClose' = (badClose \/ BadCloseOf(fdt, conns[c].fd, c))
            /\ ex' = [ex EXCEPT ![t] = Failed(ex[t], "tls_handshake_failed")]
            /\ conns' = Gc(conns, pools, ex')
    /\ UNCHANGED <<pools, destroyed, lastOp>>

\* sent < 0: ::close(conn->socket_fd), "send_failed", return Response{status 0}
SendFailed(t, c) ==
    /\ fdt' = CloseFd(fdt, conns[c].fd)
    /\ badClose' = (badClose \/ BadCloseOf(fdt, conns[c].fd, c))
    /\ ex' = [ex EXCEPT ![t] = Failed(ex[t], "send_failed")]
    /\ conns' = Gc(conns, pools, ex')

\* what the two sends of a request can do: the send of the header block
\* returns -1 ("failed"), or fewer bytes than asked ("short"), or all of them
\* and then the send of the body fails or is short ("body"), or everything is
\* written ("all")
Writes == {"failed", "short", "body", "all"}

\* send of the framed request (only sent < 0 is tested, the result of the
\* body's send is dropped), then read_response and parse_response: the
\* status and the parsed Location of the response (a send on a descriptor that
\* is closed fails)
Send(t, w, st, l) ==
    /\ ex[t].pc = "send"
    /\ LET c == ex[t].conn IN
       IF w # "failed"
       THEN /\ conns[c].fd \in Fds /\ fdt[conns[c].fd].sock # 0
            /\ (l # NoUrl) => (st = 302)
            /\ ex' = [ex EXCEPT ![t].status = st, ![t].loc = l, ![t].wrote = w,
                                ![t].pc = "release"]
            /\ UNCHANGED <<fdt, badClose, conns>>
       ELSE /\ st = 0 /\ l = NoUrl
            /\ SendFailed(t, c)
    /\ UNCHANGED <<pools, destroyed, lastOp>>

\* pool_.release(host, port, conn), under the pool lock, record_request, then
\* the redirect test (followed by a new invocation of execute_request)
PoolRelease(t) ==
    /\ ex[t].pc = "release"
    /\ LET c == ex[t].conn
           e == ex[t]
           k == PoolKey(e.url.host, e.url.port, conns[c].tls)
           full == AtCapacity(pools)
       IN /\ lastOp' = [op |-> "release", key |-> k, conn |-> c,
                        fd |-> conns[c].fd, atCap |-> full,
                        live |-> FALSE, res |-> 0, gone |-> {}]
          /\ IF full
             THEN /\ fdt' = CloseFd(fdt, conns[c].fd)
                  /\ badClose' = (badClose \/ BadCloseOf(fdt, conns[c].fd, c))
                  /\ UNCHANGED pools
             ELSE /\ pools' = [pools EXCEPT ![k] = ReleaseInto(pools[k], c)]
                  /\ UNCHANGED <<fdt, badClose>>
          /\ IF FollowsRedirect(e.follow, e.status, e.loc, e.maxRedir)
             THEN ex' = [ex EXCEPT ![t].url = e.loc, ![t].maxRedir = e.maxRedir - 1,
                                   ![t].frames = e.frames + 1,
                                   ![t].followed = e.followed + 1,
                                   ![t].status = 0, ![t].loc = NoUrl,
                                   ![t].conn = 0, ![t].fromPool = FALSE,
                                   ![t].errors = <<>>, ![t].created = 0,
                                   ![t].requests = 0, ![t].evicted = FALSE,
                                   ![t].wrote = "none",
                                   ![t].pc = "acquire"]
             ELSE ex' = [ex EXCEPT ![t] = [Returned(e, e.status, e.loc) EXCEPT
                                             !.requests = @ + 1]]
          /\ conns' = Gc([conns EXCEPT ![c].inUse = FALSE, ![c].age = 0,
                                       ![c].rel = <<e.url.host, e.url.port, conns[c].tls>>],
                         pools', ex')
    /\ UNCHANGED destroyed

(***************************************************************************)
(* The environment: the peer of an open socket closes it; time passes.     *)
(***************************************************************************)
PeerClose(f) ==
    /\ fdt[f].peer = "open"
    /\ fdt' = [fdt EXCEPT ![f].peer = "closed"]
    /\ UNCHANGED <<badClose, conns, pools, ex, destroyed, lastOp>>

\* one unit of time passes: now - last_used grows for every connection
Tick ==
    /\ conns' = [c \in ConnIds |->
                   IF conns[c].age < IdleTimeout
                   THEN [conns[c] EXCEPT !.age = @ + 1] ELSE conns[c]]
    /\ UNCHANGED <<fdt, badClose, pools, ex, destroyed, lastOp>>

\* ConnectionPool::cleanup_idle, under the pool lock
CleanupIdle ==
    /\ ~destroyed
    /\ LET gone == Flatten([k \in Keys |-> ExpiredOf(pools[k])], Keys)
           r == CloseEach(gone, fdt, badClose)
       IN /\ fdt' = r.fds
          /\ badClose' = r.bad
    /\ pools' = [k \in Keys |-> KeptOf(pools[k])]
    /\ conns' = Gc(conns, pools', ex)
    /\ lastOp' = [NoOp EXCEPT !.op = "cleanup",
                              !.gone = UNION {{[conn |-> c, key |-> k] :
                                                 c \in Range(ExpiredOf(pools[k]))} :
                                              k \in Keys}]
    /\ UNCHANGED <<ex, destroyed>>

\* ConnectionPool::~ConnectionPool, when the client is destroyed after its requests
Destroy ==
    /\ ~destroyed
    /\ \A t \in Execs : ex[t].pc \in {"idle", "done"}
    /\ LET r == CloseEach(Flatten(pools, Keys), fdt, badClose) IN
       /\ fdt' = r.fds
       /\ badClose' = r.bad
    /\ pools' = [k \in Keys |-> <<>>]
    /\ conns' = Gc(conns, pools', ex)
    /\ destroyed' = TRUE
    /\ lastOp' = NoOp
    /\ UNCHANGED ex

restOfPool == <<rt, bt, rd, dl, he, rl, dc, ck, ur, maxAsked, sx>>

Init ==
    /\ PoolRest /\ RetryRest /\ BatchRest /\ ReadRest /\ DownRest
    /\ HappyRest /\ LimiterRest /\ DnsRest /\ ChunkedRest /\ UrlRest /\ ConfigRest
    /\ StatsRest

\* concurrent executors on one client (which never calls cleanup_idle and
\* reads last_used nowhere else); redirects are not followed
Next ==
    /\ UNCHANGED restOfPool
    /\ \/ \E t \in Execs, u \in Urls : Start(t, u, FALSE, 0)
       \/ \E t \in Execs, n \in 0..MaxAddrs : PoolAcquire(t, n)
       \/ \E t \in Execs : DialSocket(t)
       \/ \E t \in Execs, ok \in BOOLEAN : DialPoll(t, ok)
       \/ \E t \in Execs, ok \in BOOLEAN : TlsHandshake(t, ok)
       \/ \E t \in Execs, w \in {"failed", "all"} :
              Send(t, w, IF w = "all" THEN 200 ELSE 0, NoUrl)
       \/ \E t \in Execs : PoolRelease(t)
       \/ \E f \in Fds : PeerClose(f)
       \/ Destroy

Spec == Init /\ [][Next]_vars

\* one executor with every request option, the pool's cleanup_idle and time
ExecNext ==
    /\ UNCHANGED restOfPool
    /\ \/ \E u \in Urls, f \in BOOLEAN, mr \in 0..MaxRedirects : Start(1, u, f, mr)
       \/ \E n \in 0..MaxAddrs : PoolAcquire(1, n)
       \/ DialSocket(1)
       \/ \E ok \in BOOLEAN : DialPoll(1, ok)
       \/ \E ok \in BOOLEAN : TlsHandshake(1, ok)
       \/ \E w \in Writes, st \in Statuses, l \in Urls \cup {NoUrl} : Send(1, w, st, l)
       \/ PoolRelease(1)
       \/ \E f \in Fds : PeerClose(f)
       \/ Tick
       \/ CleanupIdle
       \/ Destroy

ExecSpec == Init /\ [][ExecNext]_vars

(***************************************************************************)
(* HTTPClient::Impl::execute_with_retry.  rt.hist is the status of each    *)
(* execute_request call made, rt.sleeps the delay of each sleep_for,       *)
(* rt.ret the response returned: its status and the attempt it came from   *)
(* (0: a Response constructed by execute_with_retry itself).               *)
(***************************************************************************)
\* Request::retry_delay's default, in milliseconds
RetryDelay == 1000

\* the statuses an attempt can end with (0: no response)
AttemptStatuses == {0, 200, 404, 500, 503}

\* max_attempts
MaxAttemptsShort(maxRetries) == maxRetries

MaxAttempts(maxRetries) == maxRetries + 1

\* the response needs no retry: a success or a client error
NoRetryNeededBelow400(status) == status > 0 /\ status < 400

NoRetryNeeded(status) == status > 0 /\ status < 500

\* 1 << k as a 32-bit int, for k <= 31 (k = 31 gives INT_MIN)
Shl32(k) == IF k < 31 THEN 2 ^ k ELSE (-(2 ^ 30)) - 2 ^ 30

\* the delay slept after the attempts-th failed attempt (the product is a
\* 64-bit count of milliseconds)
Backoff(delay, backoff, attempts) ==
    IF backoff THEN delay * Shl32(attempts - 1) ELSE delay

\* the caller enters execute_with_retry
RetryStart(r, b, d) ==
    /\ rt.pc \in {"off", "done"}
    /\ rt' = [NoRetry EXCEPT !.pc = "loop", !.maxRetries = r, !.backoff = b,
                             !.delay = d]

\* one iteration of the while loop: the attempt ends with status st
RetryAttempt(st) ==
    /\ rt.pc = "loop"
    /\ rt.attempts < MaxAttempts(rt.maxRetries)
    /\ LET h == Append(rt.hist, st)
           a == rt.attempts + 1
       IN IF NoRetryNeeded(st)
          THEN rt' = [rt EXCEPT !.hist = h, !.pc = "done",
                                !.ret = [status |-> st, attempt |-> Len(h)]]
          ELSE IF a < MaxAttempts(rt.maxRetries)
               THEN rt' = [rt EXCEPT !.hist = h, !.attempts = a,
                                     !.sleeps = Append(@, Backoff(rt.delay, rt.backoff, a)),
                                     !.retryRecs = @ + 1]
               ELSE rt' = [rt EXCEPT !.hist = h, !.attempts = a]

\* the loop is left: Response resp; resp.status_code = 0; "max_retries_exceeded"
RetryExhausted ==
    /\ rt.pc = "loop"
    /\ ~(rt.attempts < MaxAttempts(rt.maxRetries))
    /\ rt' = [rt EXCEPT !.pc = "done", !.exceededRecs = @ + 1,
                        !.ret = [status |-> 0, attempt |-> 0]]

restOfRetry == <<fdt, badClose, conns, pools, ex, destroyed, lastOp, bt, rd, dl, he, rl, dc, ck, ur, maxAsked, sx>>

RetryNext ==
    /\ UNCHANGED restOfRetry
    /\ \/ \E r \in 0..MaxRetries, b \in BOOLEAN : RetryStart(r, b, RetryDelay)
       \/ \E st \in AttemptStatuses : RetryAttempt(st)
       \/ RetryExhausted

RetrySpec == Init /\ [][RetryNext]_vars

\* the width of int, less the sign bit: 1 << IntBits is INT_MIN
IntBits == 31

\* requests with max_retries around the width of int and a retry_delay of
\* one millisecond, against a server that answers every attempt with 503
LongRetries == (IntBits - 1)..(IntBits + 1)

LongRetryNext ==
    /\ UNCHANGED restOfRetry
    /\ \/ \E r \in LongRetries, b \in BOOLEAN : RetryStart(r, b, 1)
       \/ RetryAttempt(503)
       \/ RetryExhausted

LongRetrySpec == Init /\ [][LongRetryNext]_vars

(***************************************************************************)
(* HTTPClient::batch_request.  Request i's response is named i; a          *)
(* default-constructed Response is named 0.  bt.futures lists the requests *)
(* whose futures are in the vector, bt.completed the launched requests     *)
(* that have completed, bt.spins whether the outer loop has gone round     *)
(* without launching or collecting.                                        *)
(***************************************************************************)
\* the slot a collected response is stored in (1-based)
CompletedIdx(n, futures) == (n - Len(futures)) + 1

\* SIZE_MAX stands for 2^64 - 1, what (size_t)0 - 1 wraps to
SIZE_MAX == 2147483647

\* static_cast<size_t>(max_parallel): a negative value wraps to the top of
\* size_t's range, above every vector's size
ParallelLimit(p) == IF p < 0 THEN (SIZE_MAX + p) + 1 ELSE p

BatchStart(n, p) ==
    /\ bt.pc \in {"off", "done"}
    /\ bt' = [NoBatch EXCEPT !.pc = "run", !.n = n, !.p = p,
                             !.responses = [i \in 1..n |-> 0]]

\* the inner while loop launches one more request
BatchLaunch ==
    /\ bt.pc = "run"
    /\ bt.idx < bt.n
    /\ Len(bt.futures) < ParallelLimit(bt.p)
    /\ bt' = [bt EXCEPT !.futures = Append(@, bt.idx + 1), !.idx = @ + 1]

\* a launched request completes on its own thread
RequestCompletes(i) ==
    /\ bt.pc \in {"run", "rest"}
    /\ i \in Range(bt.futures)
    /\ i \notin bt.completed
    /\ bt' = [bt EXCEPT !.completed = @ \cup {i}]

\* "wait for first completed": futures.front().get(), store, erase
BatchCollect ==
    /\ bt.pc = "run"
    /\ bt.idx < bt.n
    /\ ~(Len(bt.futures) < ParallelLimit(bt.p))
    /\ bt.futures # <<>>
    /\ Head(bt.futures) \in bt.completed
    /\ bt' = [bt EXCEPT !.responses[CompletedIdx(bt.n, bt.futures)] = Head(bt.futures),
                        !.futures = Tail(@)]

\* a turn of the outer loop with nothing to launch and nothing to collect:
\* the loop goes round with idx, futures and responses as they were
BatchSpin ==
    /\ bt.pc = "run"
    /\ bt.idx < bt.n
    /\ ~(Len(bt.futures) < ParallelLimit(bt.p))
    /\ bt.futures = <<>>
    /\ bt' = [bt EXCEPT !.spins = IF @ < 1 THEN @ + 1 ELSE @]

\* the outer loop is left: the loop over the remaining futures starts
BatchRest1 ==
    /\ bt.pc = "run"
    /\ ~(bt.idx < bt.n)
    /\ bt' = [bt EXCEPT !.pc = "rest", !.cursor = 1]

\* one iteration of "wait for remaining": future.get() and store; the vector
\* is not shortened
BatchRemaining ==
    /\ bt.pc = "rest"
    /\ bt.cursor <= Len(bt.futures)
    /\ bt.futures[bt.cursor] \in bt.completed
    /\ bt' = [bt EXCEPT !.responses[CompletedIdx(bt.n, bt.futures)] = bt.futures[bt.cursor],
                        !.cursor = @ + 1]

\* return responses
BatchReturn ==
    /\ bt.pc = "rest"
    /\ bt.cursor > Len(bt.futures)
    /\ bt' = [bt EXCEPT !.pc = "done"]

restOfBatch == <<fdt, badClose, conns, pools, ex, destroyed, lastOp, rt, rd, dl, he, rl, dc, ck, ur, maxAsked, sx>>

BatchNext ==
    /\ UNCHANGED restOfBatch
    /\ \/ \E n \in 0..MaxBatch, p \in -1..MaxParallel : BatchStart(n, p)
       \/ BatchLaunch
       \/ BatchSpin
       \/ \E i \in 1..MaxBatch : RequestCompletes(i)
       \/ BatchCollect
       \/ BatchRest1
       \/ BatchRemaining
       \/ BatchReturn

BatchSpec == Init /\ [][BatchNext]_vars

(***************************************************************************)
(* HTTPClient::Impl::read_response on the connection's socket, which       *)
(* execute_request has set back to blocking and on which no receive        *)
(* timeout is set.  rd.idle is now - last_data_time, rd.quiet the time     *)
(* since the server last sent or closed (both counted up to the timeout),  *)
(* rd.inbuf what the server has sent that is not yet received: the header  *)
(* block first, as one unit, then the bytes of the body.  rd.headers is    *)
(* headers_complete, rd.received the body bytes received, rd.hasLength     *)
(* whether the response carries a Content-Length header and                *)
(* rd.contentLength the variable content_length once the header block is   *)
(* parsed: the header's value, or 0 without the header.  rd.elapsed is the *)
(* time since the call (counted up to one more than the timeout), rd.late  *)
(* whether the server has let more than half the timeout pass without      *)
(* sending or has let time pass after its close, and rd.slow whether time has passed between a return of recv   *)
(* and the test at the top of the loop.  rd.tls is whether the caller      *)
(* passed a TLSConnection, and rd.layer what mbedtls_ssl_read gave to the  *)
(* last TLSConnection::recv.                                               *)
(***************************************************************************)
\* the caller enters read_response: last_data_time = request_start = now
ReadStart(tls, hasLength, cl) ==
    /\ rd.pc \in {"off", "done"}
    /\ rd' = [NoRead EXCEPT !.pc = "top", !.tls = tls, !.hasLength = hasLength,
                            !.contentLength = IF hasLength THEN cl ELSE 0]

\* the top of the loop: idle >= inactivity_timeout breaks out of it
ReadLoopTop ==
    /\ rd.pc = "top"
    /\ rd' = IF rd.idle >= ReadTimeout
             THEN [rd EXCEPT !.pc = "done", !.why = "timeout"]
             ELSE [rd EXCEPT !.pc = "recv"]

\* the bytes one recv takes out of inbuf
Taken(inbuf, k) == k \in 1..inbuf

\* the body is complete: content_length > 0 and that many bytes are there
BodyComplete(cl, received) == cl > 0 /\ received >= cl

\* the timer runs on from the start of the read
IdleSinceStart(idle) == idle

\* last_data_time = now: the inactivity timer starts again
IdleAfterData(idle) == 0

\* ::recv(socket_fd, buffer, sizeof(buffer), 0) returns: k > 0 bytes, 0 at
\* the peer's close, -1 at a reset; with nothing to return it does not return
Recv(k) ==
    /\ rd.pc = "recv"
    /\ ~rd.tls
    /\ IF rd.inbuf > 0
       THEN /\ Taken(rd.inbuf, k)
            /\ LET body == IF rd.headers THEN k ELSE k - 1
                   got == IF rd.received + body > MaxBody THEN MaxBody ELSE rd.received + body
               IN rd' = [rd EXCEPT !.inbuf = @ - k, !.received = got,
                                   !.idle = IdleAfterData(@),
                                   !.headers = TRUE,
                                   !.pc = IF BodyComplete(rd.contentLength, got)
                                          THEN "done" ELSE "top",
                                   !.why = IF BodyComplete(rd.contentLength, got)
                                           THEN "complete" ELSE "none"]
       ELSE /\ k = 0
            /\ rd.peer # "open"
            /\ rd' = [rd EXCEPT !.pc = "done",
                                !.why = IF rd.peer = "closed" THEN "eof" ELSE "error"]

\* what mbedtls_ssl_read gives: application data, WANT_READ or WANT_WRITE
\* ("want"), the peer's close ("close_notify": the alert, or ssl_recv's code
\* for a recv of 0), or another error of the layer or the transport
Layer == {"data", "want", "close_notify", "net_error"}

\* TLSConnection::recv's result for what the layer gave (k: the byte count)
TlsRecvResult(r, k) ==
    IF r = "data" THEN k
    ELSE IF r = "want" THEN 0
    ELSE -1

\* n = tls->recv(buffer, sizeof(buffer)): n > 0 is data; n == 0 breaks out of
\* the loop as the server's clean close; n < 0 breaks out as an error unless
\* errno, which TLSConnection::recv does not set, still holds EAGAIN (stale),
\* and then the loop sleeps and goes on
TlsRecv(r, k, stale) ==
    /\ rd.pc = "recv"
    /\ rd.tls
    /\ r = "data" => (rd.inbuf > 0 /\ Taken(rd.inbuf, k))
    /\ r = "want" => (rd.peer = "open" /\ k = 0)
    /\ r = "close_notify" => (rd.inbuf = 0 /\ rd.peer = "closed" /\ k = 0)
    /\ r = "net_error" => (rd.inbuf = 0 /\ rd.peer = "reset" /\ k = 0)
    /\ stale => r \in {"close_notify", "net_error"}
    /\ LET n == TlsRecvResult(r, k)
           body == IF rd.headers THEN n ELSE n - 1
           got == IF rd.received + body > MaxBody THEN MaxBody ELSE rd.received + body
       IN rd' = IF n > 0
                THEN [rd EXCEPT !.inbuf = @ - n, !.received = got,
                                !.idle = IdleAfterData(@),
                                !.headers = TRUE, !.layer = r,
                                !.pc = IF BodyComplete(rd.contentLength, got)
                                       THEN "done" ELSE "top",
                                !.why = IF BodyComplete(rd.contentLength, got)
                                        THEN "complete" ELSE "none"]
                ELSE IF n = 0
                THEN [rd EXCEPT !.pc = "done", !.why = "eof", !.layer = r]
                ELSE IF stale
                THEN [rd EXCEPT !.pc = "top", !.layer = r]
                ELSE [rd EXCEPT !.pc = "done", !.why = "error", !.layer = r]

\* the server sends bytes
ServerSends ==
    /\ rd.pc \in {"top", "recv"}
    /\ rd.peer = "open"
    /\ rd.inbuf < MaxPending
    /\ rd' = [rd EXCEPT !.inbuf = @ + 1, !.quiet = 0]

\* the server closes (how = "closed") or resets (how = "reset") the connection
ServerCloses(how) ==
    /\ rd.pc \in {"top", "recv"}
    /\ rd.peer = "open"
    /\ rd' = [rd EXCEPT !.peer = how, !.quiet = 0]

\* one unit of time passes during the read
ReadTick ==
    /\ rd.pc \in {"top", "recv"}
    /\ rd' = [rd EXCEPT !.idle = IF @ < ReadTimeout THEN @ + 1 ELSE @,
                        !.quiet = IF @ < ReadTimeout THEN @ + 1 ELSE @,
                        !.elapsed = IF @ <= ReadTimeout THEN @ + 1 ELSE @,
                        !.late = @ \/ rd.peer # "open" \/ rd.quiet >= ReadTimeout \div 2,
                        !.slow = @ \/ rd.pc = "top"]

restOfRead == <<fdt, badClose, conns, pools, ex, destroyed, lastOp, rt, bt, dl, he, rl, dc, ck, ur, maxAsked, sx>>

ReadStep ==
    /\ UNCHANGED restOfRead
    /\ \/ ReadLoopTop
       \/ \E k \in 0..MaxPending : Recv(k)
       \/ \E r \in Layer, k \in 0..MaxPending, stale \in BOOLEAN : TlsRecv(r, k, stale)

ReadTime == UNCHANGED restOfRead /\ ReadTick

ReadNext ==
    \/ UNCHANGED restOfRead /\ \E tls, has \in BOOLEAN, cl \in 0..MaxBody : ReadStart(tls, has, cl)
    \/ ReadStep
    \/ UNCHANGED restOfRead /\ ServerSends
    \/ UNCHANGED restOfRead /\ \E how \in {"closed", "reset"} : ServerCloses(how)
    \/ ReadTime

ReadSpec == Init /\ [][ReadNext]_vars

\* the reader's thread is scheduled and time passes; the server owes nothing
ReadFairSpec == ReadSpec /\ WF_vars(ReadStep) /\ WF_vars(ReadTime)

(***************************************************************************)
(* parallel_download (crawl's main program) and the caller's use of its    *)
(* result.  A body is the sequence of the offsets of its bytes.            *)
(***************************************************************************)
\* the attempts a segment's worker makes at most
MAX_RETRIES == 3

\* the statuses a range request can end with
SegmentStatuses == {206, 503}


\* segment_size
SegmentSize(cl, n) == cl \div n

\* start_byte of segment i (0-based)
StartByte(i, cl, n) == i * SegmentSize(cl, n)

\* end_byte of segment i, not the last
EndByte(i, cl, n) ==
    IF (i + 1) * SegmentSize(cl, n) >= 1
    THEN (i + 1) * SegmentSize(cl, n) - 1
    ELSE SIZE_MAX

\* the body a 206 carries for "bytes=a-b" (b < 0: "bytes=a-") of cl bytes
RangeBody(a, b, cl) ==
    LET last == IF b < 0 \/ b > cl - 1 THEN cl - 1 ELSE b
    IN [j \in 1..(last - a + 1) |-> a + j - 1]

\* the body of segment i's 206
SegmentBody(i, cl, n) ==
    IF i = n - 1 THEN RangeBody(StartByte(i, cl, n), -1, cl)
    ELSE RangeBody(StartByte(i, cl, n), EndByte(i, cl, n), cl)

\* the parts are put together last to first
RECURSIVE AssembleBackwards(_, _)
AssembleBackwards(parts, i) ==
    IF i > Len(parts) THEN <<>> ELSE AssembleBackwards(parts, i + 1) \o parts[i]

\* "assemble in order": parts[0] .. parts[n-1] one after the other
RECURSIVE Assemble(_, _)
Assemble(parts, i) ==
    IF i > Len(parts) THEN <<>> ELSE parts[i] \o Assemble(parts, i + 1)

\* the caller passes content_length > 0 and parallel > 1; the workers start
DownStart(cl, n) ==
    /\ dl.pc \in {"off", "done"}
    /\ dl' = [NoDownload EXCEPT !.pc = "run", !.contentLength = cl, !.numPipes = n,
                !.workers = [i \in 1..n |-> [pc |-> "try", retries |-> 0]],
                !.parts = [i \in 1..n |-> <<>>]]

\* one turn of worker i's do-while loop: the request ends with status st; the
\* loop is left at a 206 or after MAX_RETRIES requests, then parts[i] is
\* filled or any_failed set
WorkerAttempt(i, st) ==
    /\ dl.pc = "run"
    /\ i \in 1..dl.numPipes
    /\ dl.workers[i].pc = "try"
    /\ LET r == dl.workers[i].retries + 1
           again == st # 206 /\ r < MAX_RETRIES
       IN dl' = [dl EXCEPT
                   !.workers[i] = [pc |-> IF again THEN "try" ELSE "end", retries |-> r],
                   !.parts[i] = IF st = 206
                                THEN SegmentBody(i - 1, dl.contentLength, dl.numPipes)
                                ELSE @,
                   !.anyFailed = @ \/ (~again /\ st # 206),
                   !.order = IF again THEN @ ELSE Append(@, i)]

\* every thread is joined; the parts are assembled; the caller sets the
\* status: 0 for an empty body, else 206
DownAssemble ==
    /\ dl.pc = "run"
    /\ \A i \in 1..dl.numPipes : dl.workers[i].pc = "end"
    /\ LET body == Assemble(dl.parts, 1)
       IN dl' = [dl EXCEPT !.pc = "done", !.result = body,
                           !.status = IF body = <<>> THEN 0 ELSE 206]

restOfDown == <<fdt, badClose, conns, pools, ex, destroyed, lastOp, rt, bt, rd, he, rl, dc, ck, ur, maxAsked, sx>>

DownNext ==
    /\ UNCHANGED restOfDown
    /\ \/ \E cl \in 1..MaxLength, n \in 2..MaxPipes : DownStart(cl, n)
       \/ \E i \in 1..MaxPipes, st \in SegmentStatuses : WorkerAttempt(i, st)
       \/ DownAssemble

DownSpec == Init /\ [][DownNext]_vars

(***************************************************************************)
(* HappyEyeballs::connect and try_connect_parallel.  Time is in            *)
(* milliseconds since connect was entered.  A candidate address is what    *)
(* dialling it alone does: it connects after lat ms ("ok"), is refused     *)
(* after lat ms ("refused") or never answers ("silent").  he.socks is the  *)
(* sockets vector of the running try_connect_parallel: per socket its      *)
(* candidate, when connect() was called on it, whether it is open, whether *)
(* O_NONBLOCK is cleared, and whether SO_ERROR has been read (getsockopt   *)
(* returns a pending error once and clears it).  he.stray counts the       *)
(* sockets earlier try_connect_parallel calls left open.                   *)
(***************************************************************************)
CONNECTION_ATTEMPT_DELAY == 250

RESOLUTION_DELAY == 50

\* the candidate addresses getaddrinfo can give
Candidates ==
    { [kind |-> "ok", lat |-> 100], [kind |-> "ok", lat |-> 300],
      [kind |-> "refused", lat |-> 100], [kind |-> "silent", lat |-> 0] }

\* the buckets ipv6_addrs_ / ipv4_addrs_ can be
Buckets == {<<>>} \cup { <<a>> : a \in Candidates }
              \cup { <<a, b>> : a \in Candidates, b \in Candidates }

\* the timeouts connect is called with
DialTimeouts == {300, 1000}

\* poll reports socket s at time t: the connect has completed or failed
HasEvent(s, t) == s.open /\ s.cand.kind # "silent" /\ t >= s.at + s.cand.lat

\* the scan of pfds from entry j after a poll at time t: the first socket
\* with POLLOUT and SO_ERROR = 0 wins (win = 0: none); reading SO_ERROR
\* clears a pending error
RECURSIVE ScanPolled(_, _, _)
ScanPolled(socks, j, t) ==
    IF j > Len(socks) THEN [socks |-> socks, win |-> 0]
    ELSE IF ~HasEvent(socks[j], t) THEN ScanPolled(socks, j + 1, t)
    ELSE IF socks[j].cand.kind = "refused" /\ ~socks[j].errRead
         THEN ScanPolled([socks EXCEPT ![j].errRead = TRUE], j + 1, t)
         ELSE [socks |-> socks, win |-> j]

\* "close other sockets", then the winner is set back to blocking
CloseLosersNot(socks, win) ==
    [k \in 1..Len(socks) |->
        IF k = win THEN [socks[k] EXCEPT !.blocking = TRUE] ELSE socks[k]]

CloseLosers(socks, win) ==
    [k \in 1..Len(socks) |->
        IF k = win THEN [socks[k] EXCEPT !.blocking = TRUE]
        ELSE [socks[k] EXCEPT !.open = FALSE]]

\* "all failed, close all sockets"
CloseAll(socks) == [k \in 1..Len(socks) |-> [socks[k] EXCEPT !.open = FALSE]]

OpenCount(socks) == Cardinality({ k \in 1..Len(socks) : socks[k].open })

\* when the poll with timeout `remaining` at time t returns: at the first
\* event of an open socket, or after remaining ms
EventTimes(socks, t) ==
    { IF socks[k].at + socks[k].cand.lat > t THEN socks[k].at + socks[k].cand.lat ELSE t :
        k \in { j \in 1..Len(socks) : socks[j].open /\ socks[j].cand.kind # "silent" } }

PollReturns(socks, t, remaining) ==
    LET due == { x \in EventTimes(socks, t) : x <= t + remaining }
    IN IF due = {} THEN t + remaining
       ELSE CHOOSE x \in due : \A y \in due : x <= y

\* try_connect_parallel(addrs, timeout) is entered at h.now
EnterParallel(h, phase, addrs, timeout) ==
    [h EXCEPT !.pc = "loop", !.phase = phase, !.addrs = addrs,
              !.ptimeout = timeout, !.pstart = h.now, !.i = 1,
              !.stray = h.stray + OpenCount(h.socks), !.socks = <<>>]

\* connect returns fd
DialReturns(h, fd) == [h EXCEPT !.pc = "done", !.result = fd]

\* connect after the IPv4 attempt: "if IPv6 is still pending, give it more time"
AfterIPv4(h) ==
    IF h.v6 # <<>> /\ h.timeout - h.now > 0
    THEN EnterParallel(h, 3, h.v6, h.timeout - h.now)
    ELSE DialReturns(h, -1)

\* connect after the first IPv6 attempt (or with no IPv6 address): "try IPv4"
AfterIPv6(h) ==
    IF h.v4 # <<>> /\ h.timeout - h.now > 0
    THEN EnterParallel(h, 2, h.v4, h.timeout - h.now)
    ELSE AfterIPv4(h)

\* try_connect_parallel returned -1 to connect
ParallelFailed(h) ==
    IF h.phase = 1 THEN AfterIPv6(h)
    ELSE IF h.phase = 2 THEN AfterIPv4(h)
    ELSE DialReturns(h, -1)

\* connect(timeout) is entered; resolve_addresses gives the two buckets
DialStart(v6, v4, timeout) ==
    /\ he.pc \in {"off", "done"}
    /\ LET h == [NoDial EXCEPT !.v6 = v6, !.v4 = v4, !.timeout = timeout]
       IN he' = IF v6 = <<>> /\ v4 = <<>> THEN DialReturns(h, -1)
                ELSE IF v6 # <<>> THEN EnterParallel(h, 1, v6, RESOLUTION_DELAY)
                ELSE AfterIPv6(h)

\* one turn of the staggering loop: socket() (sockOk: it gave a descriptor),
\* connect(), the delay, poll(.., 0) and the scan, the elapsed test
DialStagger(sockOk) ==
    /\ he.pc = "loop"
    /\ he.i <= Len(he.addrs)
    /\ LET last == he.i = Len(he.addrs)
           more == [he EXCEPT !.i = @ + 1]
       IN IF ~sockOk
          THEN he' = [more EXCEPT !.sockFailed = TRUE]
          ELSE LET t == IF last THEN he.now ELSE he.now + CONNECTION_ATTEMPT_DELAY
                   pushed == Append(he.socks,
                                    [cand |-> he.addrs[he.i], at |-> he.now, open |-> TRUE,
                                     blocking |-> FALSE, errRead |-> FALSE])
                   r == ScanPolled(pushed, 1, t)
               IN he' = IF r.win # 0
                        THEN DialReturns([he EXCEPT !.now = t,
                                                    !.socks = CloseLosers(r.socks, r.win)],
                                         r.win)
                        ELSE IF t - he.pstart >= he.ptimeout
                             THEN [he EXCEPT !.now = t, !.socks = r.socks, !.pc = "wait"]
                             ELSE [more EXCEPT !.now = t, !.socks = r.socks]

\* the loop is left; "wait for any connection to complete": poll for the
\* remaining time, the scan, and "all failed, close all sockets"
DialWait ==
    /\ he.pc \in {"loop", "wait"}
    /\ he.pc = "loop" => he.i > Len(he.addrs)
    /\ LET remaining == he.ptimeout - (he.now - he.pstart)
           t == IF remaining > 0 THEN PollReturns(he.socks, he.now, remaining) ELSE he.now
           r == IF remaining > 0 THEN ScanPolled(he.socks, 1, t)
                ELSE [socks |-> he.socks, win |-> 0]
       IN he' = IF r.win # 0
                THEN DialReturns([he EXCEPT !.now = t,
                                            !.socks = CloseLosers(r.socks, r.win)], r.win)
                ELSE ParallelFailed([he EXCEPT !.now = t, !.socks = CloseAll(r.socks)])

restOfHappy == <<fdt, badClose, conns, pools, ex, destroyed, lastOp, rt, bt, rd, dl, rl, dc, ck, ur, maxAsked, sx>>

HappyNext ==
    /\ UNCHANGED restOfHappy
    /\ \/ \E v6 \in Buckets, v4 \in Buckets, tm \in DialTimeouts : DialStart(v6, v4, tm)
       \/ \E sockOk \in BOOLEAN : DialStagger(sockOk)
       \/ DialWait

HappySpec == Init /\ [][HappyNext]_vars

(***************************************************************************)
(* RateLimiter.  Time is in ticks of 1/TicksPerSecond s.  A rate is the    *)
(* fraction n/d requests per second.  rl.tokens is the size of the deque   *)
(* tokens_ (the time points stored in it are never read).  rl.grants lists *)
(* the times at which acquire / try_acquire calls succeeded on a limited   *)
(* rate since the rate was last set; rl.fresh says that set_rate has not   *)
(* been called since construction.                                         *)
(***************************************************************************)
Callers == 1..NumCallers

\* the rates and burst arguments the limiter is given (rates whose interval is
\* a whole number of ticks, as the code's is a whole number of nanoseconds)
Rates == { [n |-> 0, d |-> 1], [n |-> 1, d |-> 2], [n |-> 5, d |-> 1], [n |-> 10, d |-> 1] }

Bursts == {0, 2, 10}

\* rate_ > 0
Limited(rate) == rate.n > 0

\* burst == 0 ? static_cast<size_t>(requests_per_second) : burst
BurstOf(rate, burst) == IF burst = 0 THEN rate.n \div rate.d ELSE burst

\* static_cast<long long>(1'000'000'000.0 / rate_), in ticks
IntervalOf(rate) == (TicksPerSecond * rate.d) \div rate.n

\* RateLimiter::RateLimiter
LimiterCreate(rate, burst) ==
    /\ rl.pc = "off"
    /\ rl' = [NoLimiter EXCEPT !.pc = "on", !.rate = rate,
                               !.burst = BurstOf(rate, burst),
                               !.interval = IF Limited(rate) THEN IntervalOf(rate) ELSE 0,
                               !.fresh = TRUE]

\* the tokens refill's while loop pushes
TokensAddedAll(tokens, burst, toAdd) == toAdd

TokensAdded(tokens, burst, toAdd) ==
    IF tokens < burst
    THEN (IF toAdd < burst - tokens THEN toAdd ELSE burst - tokens)
    ELSE 0

\* RateLimiter::refill
RefillKeepsTime(l) ==
    IF ~Limited(l.rate) THEN l
    ELSE LET toAdd == (l.now - l.lastRefill) \div l.interval
         IN IF toAdd > 0
            THEN [l EXCEPT !.tokens = @ + TokensAdded(l.tokens, l.burst, toAdd)]
            ELSE l

Refill(l) ==
    IF ~Limited(l.rate) THEN l
    ELSE LET toAdd == (l.now - l.lastRefill) \div l.interval
         IN IF toAdd > 0
            THEN [l EXCEPT !.tokens = @ + TokensAdded(l.tokens, l.burst, toAdd),
                           !.lastRefill = l.now]
            ELSE l

\* refill(), then a token is popped if there is one: caller t gets it
TakeToken(l, t) ==
    LET r == Refill(l)
    IN IF r.tokens > 0
       THEN [r EXCEPT !.tokens = @ - 1, !.grants = Append(@, r.now),
                      !.callers[t] = "idle"]
       ELSE [r EXCEPT !.callers[t] = "sleep"]

\* caller t calls acquire(): it returns at once on an unlimited rate, else
\* the loop's first turn runs under the lock
AcquireCall(t) ==
    /\ rl.pc = "on"
    /\ rl.callers[t] = "idle"
    /\ Len(rl.grants) < MaxGrants
    /\ rl' = IF ~Limited(rl.rate) THEN rl ELSE TakeToken(rl, t)

\* caller t has slept 1 ms and takes the lock for the next turn of the loop
AcquireRetry(t) ==
    /\ rl.pc = "on"
    /\ rl.callers[t] = "sleep"
    /\ rl' = TakeToken(rl, t)

\* caller t calls try_acquire(): what it does to the limiter (it returns
\* whether a token was taken)
TryAcquire(t) ==
    /\ rl.pc = "on"
    /\ rl.callers[t] = "idle"
    /\ Len(rl.grants) < MaxGrants
    /\ rl' = IF ~Limited(rl.rate) THEN rl
             ELSE [TakeToken(rl, t) EXCEPT !.callers[t] = "idle"]

\* RateLimiter::set_rate
SetRate(rate, burst) ==
    /\ rl.pc = "on"
    /\ rl' = [rl EXCEPT !.rate = rate, !.burst = BurstOf(rate, burst),
                        !.interval = IF Limited(rate) THEN IntervalOf(rate) ELSE @,
                        !.tokens = 0, !.lastRefill = rl.now,
                        !.fresh = FALSE, !.grants = <<>>]

\* one tick of the steady clock
LimiterTick ==
    /\ rl.pc = "on"
    /\ rl.now < MaxClock
    /\ rl' = [rl EXCEPT !.now = @ + 1]

restOfLimiter == <<fdt, badClose, conns, pools, ex, destroyed, lastOp, rt, bt, rd, dl, he, dc, ck, ur, maxAsked, sx>>

LimiterNext ==
    /\ UNCHANGED restOfLimiter
    /\ \/ \E r \in Rates, b \in Bursts : LimiterCreate(r, b)
       \/ \E t \in Callers : AcquireCall(t)
       \/ \E t \in Callers : AcquireRetry(t)
       \/ \E t \in Callers : TryAcquire(t)
       \/ \E r \in Rates, b \in Bursts : SetRate(r, b)
       \/ LimiterTick

LimiterSpec == Init /\ [][LimiterNext]_vars

(***************************************************************************)
(* Properties of the pool and the executor.                                *)
(***************************************************************************)
\* executor t holds a connection that acquire returned to it
HoldsAcquired(t) ==
    /\ ex[t].pc \in {"send", "release"}
    /\ ex[t].conn # 0
    /\ ex[t].fromPool

\* the connections executors t and u hold name the same open descriptor
SameOpenSocket(t, u) ==
    /\ conns[ex[t].conn].fd = conns[ex[u].conn].fd
    /\ conns[ex[t].conn].fd \in Fds
    /\ fdt[conns[ex[t].conn].fd].sock # 0

\* C1: no two executors simultaneously hold connections returned by acquire
\* that refer to the same open socket.
C1_NoSharedSocket ==
    \A t \in Execs, u \in Execs :
        (t # u /\ HoldsAcquired(t) /\ HoldsAcquired(u)) => ~SameOpenSocket(t, u)

\* C2: once the requests are over and the pool is destroyed, no close() has
\* hit a descriptor that was already closed or belonged to another socket, and
\* no descriptor is left open.
C2_ClosedExactlyOnce ==
    destroyed => (~badClose /\ \A f \in Fds : fdt[f].sock = 0)

\* C3: whenever the executors have returned, no pool entry is still marked
\* in_use.
C3_AcquiredIsReleased ==
    (\A t \in Execs : ex[t].pc \in {"idle", "done"}) =>
        \A k \in Keys : \A i \in 1..Len(pools[k]) : ~conns[pools[k][i]].inUse

C8_RedirectsBounded ==
    /\ ex[1].followed <= ex[1].maxRedir0
    /\ ~ex[1].follow => ex[1].followed = 0
    /\ ex[1].pc = "done" =>
         /\ ex[1].redirectCount = ex[1].followed
         /\ (ex[1].follow /\ ex[1].status >= 300 /\ ex[1].status < 400
               /\ ex[1].loc # NoUrl) => ex[1].followed = ex[1].maxRedir0

\* a chain of redirects was followed max_redirects times and the next redirect
\* was returned to the caller
C8_Witness ==
    /\ ex[1].pc = "done" /\ ex[1].follow
    /\ ex[1].maxRedir0 = MaxRedirects
    /\ ex[1].followed = MaxRedirects
    /\ ex[1].redirectCount = MaxRedirects
    /\ ex[1].status = 302 /\ ex[1].loc # NoUrl

(***************************************************************************)
(* Properties of execute_with_retry and batch_request.                     *)
(***************************************************************************)
\* every attempt made so far was answered 503
AllAttempts503 == \A i \in 1..Len(rt.hist) : rt.hist[i] = 503

\* C5: batch_request returns N responses in which element i is the response
\* to request i.
C5_BatchInOrder ==
    bt.pc = "done" => bt.responses = [i \in 1..bt.n |-> i]

\* C6: with max_retries = R > 0 and a server answering 503 every time,
\* execute_with_retry makes R+1 attempts, records R "retry" and returns a
\* response with status 503.
C6_Returns503 ==
    (rt.pc = "done" /\ rt.maxRetries > 0 /\ AllAttempts503) =>
        /\ Len(rt.hist) = rt.maxRetries + 1
        /\ rt.retryRecs = rt.maxRetries
        /\ rt.ret.status = 503

\* C6, amended: ... makes R+1 attempts, records R "retry" and one
\* "max_retries_exceeded", and returns a response of its own with status 0.
C6_ReturnsStatus0 ==
    (rt.pc = "done" /\ rt.maxRetries > 0 /\ AllAttempts503) =>
        /\ Len(rt.hist) = rt.maxRetries + 1
        /\ rt.retryRecs = rt.maxRetries
        /\ rt.exceededRecs = 1
        /\ rt.ret = [status |-> 0, attempt |-> 0]

\* MaxRetries retries against the 503 server, then the return
C6_Witness ==
    /\ rt.pc = "done" /\ rt.maxRetries = MaxRetries /\ AllAttempts503
    /\ Len(rt.hist) = MaxRetries + 1
    /\ rt.retryRecs = MaxRetries
    /\ rt.ret.status = 0

\* C7: no attempt follows one whose status is in 1..499, and that attempt's
\* response is the one returned; when all max_retries+1 attempts ended with 0
\* or >= 500, one "max_retries_exceeded" is recorded and status 0 returned.
C7_FirstGoodOrExhausted ==
    /\ \A i \in 1..Len(rt.hist) :
          (rt.hist[i] >= 1 /\ rt.hist[i] <= 499) =>
              /\ i = Len(rt.hist)
              /\ rt.pc = "done"
              /\ rt.ret = [status |-> rt.hist[i], attempt |-> i]
    /\ (rt.pc = "done" /\ \A i \in 1..Len(rt.hist) : rt.hist[i] = 0 \/ rt.hist[i] >= 500) =>
          /\ Len(rt.hist) = rt.maxRetries + 1
          /\ rt.exceededRecs = 1
          /\ rt.ret.status = 0

\* a 4xx answered the last permitted attempt and was returned
C7_Witness ==
    /\ rt.pc = "done" /\ rt.maxRetries = MaxRetries
    /\ Len(rt.hist) = MaxRetries + 1
    /\ rt.hist[Len(rt.hist)] = 404
    /\ rt.ret = [status |-> 404, attempt |-> MaxRetries + 1]
    /\ rt.exceededRecs = 0

(***************************************************************************)
(* Properties of read_response and parallel_download.                      *)
(***************************************************************************)
\* the reader waits in recv and the server has neither sent nor closed for
\* the inactivity timeout
SilentForTimeout ==
    /\ rd.pc = "recv"
    /\ rd.inbuf = 0
    /\ rd.peer = "open"
    /\ rd.quiet >= ReadTimeout

\* C9: when the server neither sends nor closes for the inactivity timeout
\* while the response is read, read_response eventually returns (unless the
\* server sends or closes after all).
C9_TimeoutFires ==
    SilentForTimeout ~> (rd.pc = "done" \/ rd.inbuf > 0 \/ rd.peer # "open")

\* C10: the body parallel_download returns is empty or the in-order
\* concatenation of the bodies of all its segments.
C10_NoSegmentMissing ==
    dl.pc = "done" =>
        \/ dl.result = <<>>
        \/ dl.result = Assemble([i \in 1..dl.numPipes |->
                                   SegmentBody(i - 1, dl.contentLength, dl.numPipes)], 1)

(***************************************************************************)
(* Properties of the segment ranges of parallel_download.                  *)
(***************************************************************************)
\* the last byte segment i (0-based) asks for: end_byte, or the end of the
\* stream for the last segment
LastRequested(i, cl, n) == IF i = n - 1 THEN cl - 1 ELSE EndByte(i, cl, n)

\* C11: the ranges the segments request are contiguous, do not overlap and
\* cover exactly bytes 0..CL-1, so that a download in which every segment
\* got its 206 returns the single-stream body.
C11_RangesPartition ==
    dl.pc # "off" =>
        LET cl == dl.contentLength
            n == dl.numPipes
        IN /\ StartByte(0, cl, n) = 0
           /\ \A i \in 0..(n - 1) : StartByte(i, cl, n) <= LastRequested(i, cl, n)
           /\ \A i \in 0..(n - 2) : LastRequested(i, cl, n) = StartByte(i + 1, cl, n) - 1
           /\ LastRequested(n - 1, cl, n) = cl - 1
           /\ (dl.pc = "done" /\ ~dl.anyFailed) =>
                  dl.result = [j \in 1..cl |-> j - 1]

(***************************************************************************)
(* Properties of HappyEyeballs.                                            *)
(***************************************************************************)
\* C12: on every exit of try_connect_parallel and of connect, the sockets
\* the call created are all closed, except the returned winner, which is
\* open and in blocking mode.
C12_OnlyWinnerOpen ==
    /\ he.stray = 0
    /\ he.pc = "done" =>
         IF he.result >= 1
         THEN /\ \A k \in 1..Len(he.socks) : he.socks[k].open <=> (k = he.result)
              /\ he.socks[he.result].blocking
         ELSE OpenCount(he.socks) = 0

\* connect returned a winner of the third try_connect_parallel call after
\* closing the loser it had dialled beside it
C12_Witness ==
    /\ he.pc = "done" /\ he.result >= 1 /\ he.phase = 3
    /\ Len(he.socks) = 2
    /\ OpenCount(he.socks) = 1
    /\ he.socks[he.result].blocking

\* some resolved address connects, dialled alone, within the deadline
SomeCandidateConnects ==
    \E b \in {he.v6, he.v4} : \E k \in 1..Len(b) :
        b[k].kind = "ok" /\ b[k].lat <= he.timeout

\* C13: if some resolved address would connect in isolation within the
\* overall deadline (and socket() does not fail), connect returns a
\* connected socket.
C13_ConnectsIfAnyCan ==
    (he.pc = "done" /\ ~he.sockFailed /\ SomeCandidateConnects) =>
        /\ he.result >= 1
        /\ he.socks[he.result].cand.kind = "ok"

(***************************************************************************)
(* Properties of the RateLimiter.                                          *)
(***************************************************************************)
\* C14: the number of tokens in the deque is at most burst.
C14_TokensAtMostBurst == rl.tokens <= rl.burst

\* after a set_rate, a refill that was owed more tokens than fit filled the
\* deque to burst and one token was taken
C14_Witness ==
    /\ rl.pc = "on" /\ ~rl.fresh
    /\ rl.burst = 2 /\ rl.tokens = 1
    /\ Len(rl.grants) = 1
    /\ rl.grants[1] >= 3 * rl.interval

\* C15: with a fixed rate R > 0, the acquire / try_acquire calls that
\* succeed in any time window of length W are at most R*W + burst (for the
\* windows from one success to a later one, which are the tightest).
C15_RateBound ==
    (rl.pc = "on" /\ Limited(rl.rate)) =>
        \A i \in 1..Len(rl.grants) : \A j \in i..Len(rl.grants) :
            (j - i + 1) * rl.rate.d * TicksPerSecond
                <= rl.rate.n * (rl.grants[j] - rl.grants[i])
                     + rl.burst * rl.rate.d * TicksPerSecond

\* a full burst was taken at one instant and the next token one interval later
C15_Witness ==
    /\ rl.pc = "on" /\ Limited(rl.rate) /\ rl.burst = 2
    /\ Len(rl.grants) >= 3
    /\ rl.grants[2] = rl.grants[1]
    /\ rl.grants[3] = rl.grants[1] + rl.interval

\* C16: on a limiter just created with rate 10 and burst 10, none of the
\* first 10 acquires has to wait.
C16_BurstAtConstruction ==
    (rl.pc = "on" /\ rl.fresh /\ rl.rate = [n |-> 10, d |-> 1] /\ rl.burst = 10
       /\ Len(rl.grants) < 10) =>
        \A t \in Callers : rl.callers[t] # "sleep"

(***************************************************************************)
(* The DNS cache (dns_cache.cpp) and the resolver calls of the executor.   *)
(* dc.clock is the steady clock in whole seconds: resolve truncates an     *)
(* entry's age to seconds before it compares it with the ttl.  dc.calls    *)
(* counts the calls of getaddrinfo, by the cache and by the executor.      *)
(* dc.stored remembers, for each key, the list and the time of the last    *)
(* resolve that succeeded through the resolver, until clear() is called.   *)
(***************************************************************************)
Resolvers == 1..NumResolvers

Hosts == {"a", "b"}

Ports == {80}

\* the values of default_ttl, in seconds
Ttls == {0, 2}

\* the lists getaddrinfo can answer with; the empty list is a failure
Answers == {<<>>, <<1>>, <<2, 1>>}

\* make_key: host + ":" + decimal port; distinct pairs give distinct keys
make_key(host, port) == <<host, port>>

\* an entry is still served when its age is the ttl
UnexpiredAtTtl(entry, now, ttl) == now - entry.cached_at <= ttl

\* an entry expires one second early
UnexpiredEarly(entry, now, ttl) == now - entry.cached_at < ttl - 1

\* age < ttl, the age in whole seconds
Unexpired(entry, now, ttl) == now - entry.cached_at < ttl

Erase(cache, key) == [k \in DOMAIN cache \ {key} |-> cache[k]]

Store(cache, key, entry) == [k \in DOMAIN cache \cup {key} |-> IF k = key THEN entry ELSE cache[k]]

\* the calls of getaddrinfo made so far and those the resolving threads will make
CallsDue == dc.calls + Cardinality({t \in Resolvers : dc.th[t].pc = "resolving"})

\* HTTPClient::enable_dns_cache: a fresh DNSCache replaces the old one, or none
EnableDnsCache(enable, ttl) ==
    /\ \A t \in Resolvers : dc.th[t].pc = "idle"
    /\ enable \/ dc.pc = "on"
    /\ dc' = IF enable
             THEN [NoDns EXCEPT !.pc = "on", !.ttl = ttl, !.clock = dc.clock, !.calls = dc.calls]
             ELSE [NoDns EXCEPT !.clock = dc.clock, !.calls = dc.calls]

\* DNSCache::resolve, the part under the lock: a hit returns the cached list,
\* an expired entry is erased, and a miss goes on to the resolver
ResolveLocked(t, host, port) ==
    LET key == make_key(host, port)
        found == key \in DOMAIN dc.cache
    IN /\ dc.pc = "on"
       /\ dc.th[t].pc = "idle"
       /\ dc.hits + dc.misses < MaxLookups
       /\ CallsDue < MaxLookups
       /\ dc' = IF found /\ Unexpired(dc.cache[key], dc.clock, dc.cache[key].ttl)
                THEN [dc EXCEPT !.hits = @ + 1,
                                !.last = [op |-> "resolve", t |-> t, host |-> host, port |-> port,
                                          ret |-> dc.cache[key].addresses, hit |-> TRUE]]
                ELSE [dc EXCEPT !.misses = @ + 1,
                                !.cache = IF found THEN Erase(@, key) ELSE @,
                                !.th[t] = [pc |-> "resolving", host |-> host, port |-> port],
                                !.last = [op |-> "resolve", t |-> t, host |-> host, port |-> port,
                                          ret |-> <<>>, hit |-> FALSE]]

\* DNSCache::resolve after the lock: do_resolve calls getaddrinfo, a non-empty
\* answer is cached with the time of the store, and the answer is returned
ResolveFresh(t, addresses) ==
    LET key == make_key(dc.th[t].host, dc.th[t].port)
        cached == [addresses |-> addresses, cached_at |-> dc.clock, ttl |-> dc.ttl]
    IN /\ dc.pc = "on"
       /\ dc.th[t].pc = "resolving"
       /\ dc' = [dc EXCEPT !.calls = @ + 1,
                           !.cache = IF addresses # <<>> THEN Store(@, key, cached) ELSE @,
                           !.stored = IF addresses # <<>> THEN Store(@, key, cached) ELSE @,
                           !.th[t] = NoDns.th[t],
                           !.last = [op |-> "resolved", t |-> t, host |-> dc.th[t].host,
                                     port |-> dc.th[t].port, ret |-> addresses, hit |-> FALSE]]

\* DNSCache::cleanup: every entry whose age has reached its ttl is erased
DnsCleanup ==
    /\ dc.pc = "on"
    /\ \E k \in DOMAIN dc.cache : ~Unexpired(dc.cache[k], dc.clock, dc.cache[k].ttl)
    /\ dc' = [dc EXCEPT !.cache = [k \in {x \in DOMAIN @ : Unexpired(@[x], dc.clock, @[x].ttl)}
                                      |-> @[k]],
                        !.last = NoDns.last]

\* DNSCache::clear
DnsClear ==
    /\ dc.pc = "on"
    /\ dc.cache # <<>>
    /\ dc' = [dc EXCEPT !.cache = <<>>, !.stored = <<>>,
                        !.last = NoDns.last]

\* execute_request when the pool has no connection for the request: the
\* executor calls getaddrinfo itself, whether or not a DNSCache is enabled
ExecuteNewConnection(host, port) ==
    /\ CallsDue < MaxLookups
    /\ dc' = [dc EXCEPT !.calls = @ + 1,
                        !.requested = IF dc.pc = "on" THEN @ \cup {make_key(host, port)} ELSE @,
                        !.last = [NoDns.last EXCEPT !.op = "request", !.host = host, !.port = port]]

\* one second of the steady clock
DnsTick ==
    /\ dc.pc = "on"
    /\ dc.clock < MaxDnsClock
    /\ dc' = [dc EXCEPT !.clock = @ + 1,
                        !.last = NoDns.last]

restOfDns == <<fdt, badClose, conns, pools, ex, destroyed, lastOp, rt, bt, rd, dl, he, rl, ck, ur, maxAsked, sx>>

DnsNext ==
    /\ UNCHANGED restOfDns
    /\ \/ \E e \in BOOLEAN, ttl \in Ttls : EnableDnsCache(e, ttl)
       \/ \E t \in Resolvers, h \in Hosts, p \in Ports : ResolveLocked(t, h, p)
       \/ \E t \in Resolvers, a \in Answers : ResolveFresh(t, a)
       \/ DnsCleanup
       \/ DnsClear
       \/ \E h \in Hosts, p \in Ports : ExecuteNewConnection(h, p)
       \/ DnsTick

DnsSpec == Init /\ [][DnsNext]_vars

\* C17: a resolve of a key whose last successful resolve through the resolver
\* stored its list less than ttl seconds ago, with no clear() since, returns
\* that same list without a call of the resolver, and counts one hit and no
\* miss.
C17_SecondResolveHits ==
    [][\A t \in Resolvers, h \in Hosts, p \in Ports :
         (/\ dc'.last.op = "resolve" /\ dc'.last.t = t
          /\ dc'.last.host = h /\ dc'.last.port = p
          /\ dc'.hits + dc'.misses = dc.hits + dc.misses + 1
          /\ make_key(h, p) \in DOMAIN dc.stored
          /\ dc.clock - dc.stored[make_key(h, p)].cached_at < dc.ttl)
         => /\ dc'.th[t].pc = "idle"
            /\ dc'.last.hit
            /\ dc'.last.ret = dc.stored[make_key(h, p)].addresses
            /\ dc'.hits = dc.hits + 1
            /\ dc'.misses = dc.misses
            /\ dc'.calls = dc.calls]_vars

\* a resolve has hit an entry cached a second or more before, after two
\* threads both went to the resolver for it
C17_Witness ==
    \E t \in Resolvers :
        /\ dc.last.op = "resolve" /\ dc.last.t = t
        /\ dc.last.hit
        /\ dc.last.ret = <<2, 1>>
        /\ dc.calls = 2
        /\ dc.clock > dc.cache[make_key(dc.last.host, dc.last.port)].cached_at

\* C18: with the DNS cache enabled, a request that needs a new connection to
\* a host and port already requested does not call the system resolver.
C18_SecondRequestUsesCache ==
    [][\A h \in Hosts, p \in Ports :
         (/\ dc'.last.op = "request" /\ dc'.last.host = h /\ dc'.last.port = p
          /\ dc' # dc
          /\ dc.pc = "on"
          /\ make_key(h, p) \in dc.requested)
         => dc'.calls = dc.calls]_vars

\* C19: once the header block of a response with a Content-Length header is
\* in and the body bytes received have reached the Content-Length, zero
\* included, read_response has stopped reading: it is not back in its loop.
C19_StopsAtContentLength ==
    ~(/\ rd.pc \in {"top", "recv"}
      /\ rd.headers
      /\ rd.hasLength
      /\ rd.received >= rd.contentLength)

\* with a Content-Length above zero the reader stops at the last body byte
C19_StopsAtPositiveLength ==
    ~(/\ rd.pc \in {"top", "recv"}
      /\ rd.headers
      /\ rd.hasLength
      /\ rd.contentLength > 0
      /\ rd.received >= rd.contentLength)

(***************************************************************************)
(* A response with Transfer-Encoding: chunked.  The bytes are those after  *)
(* the header block, which arrives whole with the first read; "CR" and     *)
(* "LF" are the bytes \r and \n.  The server frames ck.body into           *)
(* ck.stream chunk by chunk, read_response receives it read by read and    *)
(* stops at the terminal pattern, and parse_response decodes what was      *)
(* read into ck.parsed.  ck.name is the header's name as the server spells *)
(* it; its value is "chunked".  ck.chunked is read_response's variable     *)
(* chunked, set when the header block is parsed.                           *)
(***************************************************************************)
UpperCase == <<"A", "B", "C", "D", "E", "F", "G", "H", "I", "J", "K", "L", "M",
              "N", "O", "P", "Q", "R", "S", "T", "U", "V", "W", "X", "Y", "Z">>

LowerCase == <<"a", "b", "c", "d", "e", "f", "g", "h", "i", "j", "k", "l", "m",
              "n", "o", "p", "q", "r", "s", "t", "u", "v", "w", "x", "y", "z">>

\* std::transform(key.begin(), key.end(), key.begin(), ::tolower)
LowerKey(key) ==
    [i \in 1..Len(key) |->
        IF \E j \in 1..26 : UpperCase[j] = key[i]
        THEN LowerCase[CHOOSE j \in 1..26 : UpperCase[j] = key[i]]
        ELSE key[i]]

\* the header's name as the code spells it
TransferEncoding ==
    <<"T", "r", "a", "n", "s", "f", "e", "r", "-", "E", "n", "c", "o", "d", "i", "n", "g">>

\* the spellings servers use for the header's name
Spellings == {TransferEncoding, LowerKey(TransferEncoding)}

\* read_response: key == "transfer-encoding" after tolower
ReaderChunked(name) == LowerKey(name) = LowerKey(TransferEncoding)

\* parse_response: resp.headers.find("Transfer-Encoding") on a std::map keyed
\* by the name as received
ParserChunked(name) == name = TransferEncoding

\* the pieces the bodies are made of
Words == {<<"x">>, <<"0">>, <<"CR", "LF">>}

RECURSIVE BodiesOf(_)
BodiesOf(n) ==
    IF n = 0 THEN {<<>>}
    ELSE LET shorter == BodiesOf(n - 1)
         IN shorter \cup {b \o w : b \in shorter, w \in Words}

Bodies == BodiesOf(MaxWords)

HexDigits == <<"0", "1", "2", "3", "4", "5", "6", "7", "8", "9", "a", "b", "c", "d", "e", "f">>

IsHexDigit(c) == \E i \in 1..16 : HexDigits[i] = c

HexValue(c) == (CHOOSE i \in 1..16 : HexDigits[i] = c) - 1

\* the chunk-size line the server writes: the size in hexadecimal
RECURSIVE ToHex(_)
ToHex(n) == IF n < 16 THEN <<HexDigits[n + 1]>>
            ELSE ToHex(n \div 16) \o <<HexDigits[(n % 16) + 1]>>

\* one chunk on the wire: size line, data, CRLF
ChunkFrame(data) == ToHex(Len(data)) \o <<"CR", "LF">> \o data \o <<"CR", "LF">>

\* the last chunk
LastChunk == <<"0", "CR", "LF", "CR", "LF">>

\* std::stoull(str, nullptr, 16): the value of the leading hexadecimal
\* digits; -1 stands for the exception thrown when there is none
RECURSIVE HexPrefix(_, _, _)
HexPrefix(str, i, acc) ==
    IF i <= Len(str) /\ IsHexDigit(str[i])
    THEN HexPrefix(str, i + 1, acc * 16 + HexValue(str[i]))
    ELSE acc

Stoull16(str) == IF str # <<>> /\ IsHexDigit(str[1]) THEN HexPrefix(str, 1, 0) ELSE -1

\* read_response's search for the terminal chunk: "0\r\n\r\n" anywhere in
\* what has been received after the header block (i + 4 < size, from 0)
TerminalFound(data) ==
    \E i \in 1..(Len(data) - 4) :
        /\ data[i] = "0" /\ data[i + 1] = "CR" /\ data[i + 2] = "LF"
        /\ data[i + 3] = "CR" /\ data[i + 4] = "LF"

\* the end of the chunk-size line that starts at chunk_pos (both from 0)
RECURSIVE LineEnd(_, _)
LineEnd(data, line_end) ==
    IF line_end + 1 < Len(data)
       /\ ~(data[line_end + 1] = "CR" /\ data[line_end + 2] = "LF")
    THEN LineEnd(data, line_end + 1)
    ELSE line_end

\* parse_response's chunk loop from chunk_pos (from 0) on, body being what
\* is decoded so far
RECURSIVE DechunkFrom(_, _, _)
DechunkFrom(data, chunk_pos, body) ==
    IF chunk_pos >= Len(data) THEN body
    ELSE LET line_end == LineEnd(data, chunk_pos)
             chunk_size == Stoull16(SubSeq(data, chunk_pos + 1, line_end))
             data_pos == line_end + 2
         IN IF line_end + 1 >= Len(data) THEN body
            ELSE IF chunk_size = -1 THEN <<"exception">>
            ELSE IF chunk_size = 0 THEN body
            ELSE DechunkFrom(data, data_pos + chunk_size + 2,
                             IF data_pos + chunk_size <= Len(data)
                             THEN body \o SubSeq(data, data_pos + 1, data_pos + chunk_size)
                             ELSE body)

\* parse_response's body of a chunked response, data being the bytes after
\* the header block
Dechunk(data) == DechunkFrom(data, 0, <<>>)

\* the server has a body to send
ChunkedStart(name, body) ==
    /\ ck.pc \in {"off", "done"}
    /\ ck' = [NoChunked EXCEPT !.pc = "framing", !.name = name, !.body = body,
                               !.rest = body]

\* the server frames the next n bytes of the body as one chunk
ServerChunk(n) ==
    /\ ck.pc = "framing"
    /\ n \in 1..Len(ck.rest)
    /\ ck' = [ck EXCEPT !.stream = @ \o ChunkFrame(SubSeq(ck.rest, 1, n)),
                        !.rest = SubSeq(@, n + 1, Len(@))]

\* the server ends the body with the last chunk; the client starts to read
ServerLastChunk ==
    /\ ck.pc = "framing"
    /\ ck.rest = <<>>
    /\ ck' = [ck EXCEPT !.stream = @ \o LastChunk, !.pc = "reading"]

\* parse_response's body: de-chunked when it finds the header, else the
\* bytes after the header block as they are
ParsedBody(name, data) == IF ParserChunked(name) THEN Dechunk(data) ELSE data

\* one recv of read_response returns the next k bytes (the first one the
\* header block and k bytes); the terminal search, made when the reader took
\* the response for chunked, ends the read, and parse_response decodes what
\* was read
ChunkedRecv(k) ==
    /\ ck.pc = "reading"
    /\ ck.received + k <= Len(ck.stream)
    /\ LET data == SubSeq(ck.stream, 1, ck.received + k)
           chunked == IF ck.received = 0 THEN ReaderChunked(ck.name) ELSE ck.chunked
       IN ck' = IF chunked /\ TerminalFound(data)
                THEN [ck EXCEPT !.received = @ + k, !.chunked = chunked, !.pc = "done",
                                !.parsed = ParsedBody(ck.name, data)]
                ELSE [ck EXCEPT !.received = @ + k, !.chunked = chunked]

restOfChunked == <<fdt, badClose, conns, pools, ex, destroyed, lastOp, rt, bt, rd, dl, he, rl, dc, ur, maxAsked, sx>>

ChunkedNext ==
    /\ UNCHANGED restOfChunked
    /\ \/ \E name \in Spellings, body \in Bodies : ChunkedStart(name, body)
       \/ \E n \in 1..(2 * MaxWords) : ServerChunk(n)
       \/ ServerLastChunk
       \/ \E k \in 1..(12 * MaxWords + 5) : ChunkedRecv(k)

ChunkedSpec == Init /\ [][ChunkedNext]_vars

\* C20: whatever the body, its split into chunks and the split of the bytes
\* into reads, the body parse_response decodes from what read_response read
\* is the body the server framed (the header's name being spelled as
\* parse_response looks it up).
C20_DechunkIsBody ==
    (ck.pc = "done" /\ ck.name = TransferEncoding) => ck.parsed = ck.body

\* the same when every read ends at the end of a chunk's frame or the whole
\* response arrives in one read
C20_DechunkOfWholeStream ==
    (ck.pc = "done" /\ ck.name = TransferEncoding /\ ck.received = Len(ck.stream)) =>
        ck.parsed = ck.body

(***************************************************************************)
(* Properties of the pool's capacity, cleanup_idle and keys.               *)
(***************************************************************************)
\* the entries of all keys are at most max_connections
C21_TotalAtMostMax == TotalConns(pools) <= MaxConnections

\* C21: the pool never holds more than max_connections entries, and right
\* after a release made at capacity the released connection's socket is
\* closed and the connection is in no key's list.
C21_ReleaseAtCapacityDrops ==
    /\ TotalConns(pools) <= MaxConnections
    /\ (lastOp.op = "release" /\ lastOp.atCap) =>
         /\ lastOp.fd \in Fds => fdt[lastOp.fd].sock # lastOp.conn
         /\ \A k \in Keys : lastOp.conn \notin Range(pools[k])

C22_KeepsInUse ==
    /\ lastOp.op = "cleanup"
    /\ ex[1].pc = "send"
    /\ ex[1].fromPool
    /\ \E k \in Keys : ex[1].conn \in Range(pools[k])

\* hosts in the order of std::string's operator<
HostOrder == <<"a", "b">>

HostLess(g, h) ==
    \E i \in 1..Len(HostOrder), j \in 1..Len(HostOrder) :
        HostOrder[i] = g /\ HostOrder[j] = h /\ i < j

\* PoolKey::operator<, on keys <<host, port, use_tls>>
KeyLess(a, b) ==
    IF a[1] # b[1] THEN HostLess(a[1], b[1])
    ELSE IF a[2] # b[2] THEN a[2] < b[2]
    ELSE ~a[3] /\ b[3]

\* the keys std::map takes for one: neither is less than the other
SameMapKey(a, b) == ~KeyLess(a, b) /\ ~KeyLess(b, a)

KeySpace == {<<h, p, tls>> : h \in {"a", "b"}, p \in {80, 443}, tls \in BOOLEAN}

\* C23: a connection acquire returned for (host, port, tls) was last released
\* under that same host, port and TLS flag, and the pool's map takes two keys
\* for one only when host, port and TLS flag are all equal.
C23_SameKeyOnly ==
    /\ \A a \in KeySpace, b \in KeySpace : SameMapKey(a, b) <=> a = b
    /\ \A t \in Execs :
         HoldsAcquired(t) =>
            conns[ex[t].conn].rel
               = <<ex[t].url.host, ex[t].url.port, UseTls(ex[t].url)>>

\* the executor holds a connection from the pool while the other key's list
\* holds a connection too
C23_Witness ==
    /\ HoldsAcquired(1)
    /\ \E k \in Keys : k # KeyOfReq(ex[1]) /\ pools[k] # <<>>

(***************************************************************************)
(* URL::parse and URL::to_string.  A string is the sequence of its         *)
(* characters; positions count from 0 as in the code, and Npos is          *)
(* std::string::npos.  A result is a URL, nullopt, or the exception that   *)
(* std::stoi throws and URL::parse does not catch.                         *)
(***************************************************************************)
Npos == 2147483647

Min(a, b) == IF a < b THEN a ELSE b

\* s.substr(pos, n) and s.substr(pos)
Substr(s, pos, n) == SubSeq(s, pos + 1, Min(pos + n, Len(s)))

SubstrFrom(s, pos) == SubSeq(s, pos + 1, Len(s))

\* s.find(pat, from)
Find(s, pat, from) ==
    LET hits == {i \in from..(Len(s) - Len(pat)) : Substr(s, i, Len(pat)) = pat}
    IN IF hits = {} THEN Npos ELSE CHOOSE i \in hits : \A j \in hits : i <= j

\* ::tolower on the characters of the scheme
ToLower(c) == CASE c = "H" -> "h" [] c = "T" -> "t" [] c = "P" -> "p" [] OTHER -> c

Digits == <<"0", "1", "2", "3", "4", "5", "6", "7", "8", "9">>

IsDigit(c) == \E i \in 1..10 : Digits[i] = c

DigitValue(c) == (CHOOSE i \in 1..10 : Digits[i] = c) - 1

RECURSIVE DecPrefix(_, _, _)
DecPrefix(str, i, acc) ==
    IF i <= Len(str) /\ IsDigit(str[i])
    THEN DecPrefix(str, i + 1, acc * 10 + DigitValue(str[i]))
    ELSE acc

\* std::stoi(str): the value of the leading digits; -1 stands for the
\* std::invalid_argument thrown when there is none
Stoi(str) == IF str # <<>> /\ IsDigit(str[1]) THEN DecPrefix(str, 1, 0) ELSE -1

\* std::to_string(port)
RECURSIVE ToDec(_)
ToDec(n) == IF n < 10 THEN <<Digits[n + 1]>>
            ELSE ToDec(n \div 10) \o <<Digits[(n % 10) + 1]>>

Http == <<"h", "t", "t", "p">>

Https == <<"h", "t", "t", "p", "s">>

\* the path and the query URL::parse takes from url
PathAndQuery(url, path_start, query_start) ==
    IF path_start # Npos
    THEN IF query_start # Npos /\ query_start > path_start
         THEN [path |-> Substr(url, path_start, query_start - path_start),
               query |-> SubstrFrom(url, query_start + 1)]
         ELSE [path |-> SubstrFrom(url, path_start), query |-> <<>>]
    ELSE [path |-> <<"/">>,
          query |-> IF query_start # Npos THEN SubstrFrom(url, query_start + 1) ELSE <<>>]

\* URL::parse
Parse(url) ==
    LET scheme_end == Find(url, <<":", "/", "/">>, 0)
        scheme == [i \in 1..Len(Substr(url, 0, scheme_end)) |-> ToLower(url[i])]
        pos == scheme_end + 3
        path_start == Find(url, <<"/">>, pos)
        query_start == Find(url, <<"?">>, pos)
        host_end == IF Min(path_start, query_start) = Npos
                    THEN Len(url) ELSE Min(path_start, query_start)
        host_port == Substr(url, pos, host_end - pos)
        port_delim == Find(host_port, <<":">>, 0)
        port == IF port_delim # Npos THEN Stoi(SubstrFrom(host_port, port_delim + 1))
                ELSE IF scheme = Https THEN 443 ELSE 80
        host == IF port_delim # Npos THEN Substr(host_port, 0, port_delim) ELSE host_port
        pq == PathAndQuery(url, path_start, query_start)
    IN IF scheme_end = Npos THEN [kind |-> "nullopt"]
       ELSE IF port = -1 THEN [kind |-> "exception"]
       ELSE [kind |-> "url", scheme |-> scheme, host |-> host, port |-> port,
             path |-> pq.path, query |-> pq.query]

\* URL::to_string
to_string(u) ==
    u.scheme \o <<":", "/", "/">> \o u.host
    \o (IF (u.scheme = Http /\ u.port # 80) \/ (u.scheme = Https /\ u.port # 443)
        THEN <<":">> \o ToDec(u.port) ELSE <<>>)
    \o u.path
    \o (IF u.query # <<>> THEN <<"?">> \o u.query ELSE <<>>)

\* the strings given to URL::parse: a beginning and up to MaxTail characters
Beginnings == {Http \o <<":", "/", "/">>, Https \o <<":", "/", "/">>,
               <<"f", "t", "p", ":", "/", "/">>, <<"H", "T", "T", "P", ":", "/", "/">>,
               <<"a", ":">>}

TailChars == {"a", ":", "8", "0", "/", "?"}

Tails == UNION {[1..n -> TailChars] : n \in 0..MaxTail}

\* URL::parse(url)
UrlParse(b, tail) ==
    /\ ur.pc = "off"
    /\ ur' = [NoParse EXCEPT !.pc = "parsed", !.input = b \o tail, !.result = Parse(b \o tail)]

\* to_string() of the URL that came back, and URL::parse of that string
UrlToString ==
    /\ ur.pc = "parsed"
    /\ ur.result.kind = "url"
    /\ ur' = [ur EXCEPT !.pc = "again", !.text = to_string(ur.result),
                        !.again = Parse(to_string(ur.result))]

restOfUrl == <<fdt, badClose, conns, pools, ex, destroyed, lastOp, rt, bt, rd, dl, he, rl, dc, ck, maxAsked, sx>>

UrlNext ==
    /\ UNCHANGED restOfUrl
    /\ \/ \E b \in Beginnings, tail \in Tails : UrlParse(b, tail)
       \/ UrlToString

UrlSpec == Init /\ [][UrlNext]_vars

\* C24: URL::parse returns a URL or an absent value for every string: no
\* exception leaves it.
C24_ParseNeverThrows ==
    ur.pc = "parsed" => ur.result.kind \in {"url", "nullopt"}

\* C25: for every string that URL::parse accepts, parsing the to_string of
\* the result gives the same scheme, host, port, path and query.
C25_RoundTrip ==
    ur.pc = "again" => ur.again = ur.result

\* the text after "://" of the input, its first '?' and its first '/', from 0
AfterScheme(s) == SubstrFrom(s, Find(s, <<":", "/", "/">>, 0) + 3)

\* C26: for an input with "://" that parses, the host and port text ends at
\* the earliest '/' or '?', the query is everything after the first '?'
\* (empty without one), and the path runs from the '/' that ends the host up
\* to the first '?' ("/" when the host is not followed by '/').
C26_HostPathQuery ==
    (ur.pc = "parsed" /\ ur.result.kind = "url") =>
        LET rest == AfterScheme(ur.input)
            slash == Find(rest, <<"/">>, 0)
            mark == Find(rest, <<"?">>, 0)
            hostEnd == IF Min(slash, mark) = Npos THEN Len(rest) ELSE Min(slash, mark)
            hostPort == Substr(rest, 0, hostEnd)
            colon == Find(hostPort, <<":">>, 0)
        IN /\ ur.result.host = (IF colon = Npos THEN hostPort ELSE Substr(hostPort, 0, colon))
           /\ ur.result.query = (IF mark = Npos THEN <<>> ELSE SubstrFrom(rest, mark + 1))
           /\ ur.result.path = (IF slash # Npos /\ slash = hostEnd
                                THEN Substr(rest, slash, (IF mark = Npos THEN Len(rest) ELSE mark) - slash)
                                ELSE <<"/">>)

RECURSIVE LenUpTo(_, _)
LenUpTo(parts, i) == IF i = 0 THEN 0 ELSE LenUpTo(parts, i - 1) + Len(parts[i])

\* C28: whatever the order in which the workers end, the body returned is
\* the parts one after the other in the order of their segments, and a step
\* of one worker changes no slot of parts but that worker's own.
C28_AssembledInIndexOrder ==
    /\ [](dl.pc = "done" =>
            /\ Len(dl.result) = LenUpTo(dl.parts, dl.numPipes)
            /\ \A i \in 1..dl.numPipes :
                 SubSeq(dl.result, LenUpTo(dl.parts, i - 1) + 1, LenUpTo(dl.parts, i))
                    = dl.parts[i])
    /\ [][(dl.pc = "run" /\ dl'.pc = "run") =>
            \A i \in 1..dl.numPipes :
                dl'.parts[i] # dl.parts[i] =>
                    /\ dl'.workers[i].retries = dl.workers[i].retries + 1
                    /\ \A j \in 1..dl.numPipes : j # i => dl'.parts[j] = dl.parts[j]]_vars

\* three workers ended last segment first, each with its part, and the body
\* is assembled
C28_Witness ==
    /\ dl.pc = "done"
    /\ dl.order = <<3, 2, 1>>
    /\ \A i \in 1..3 : dl.parts[i] # <<>>
    /\ dl.result = <<0, 1, 2>>

\* C29: a resolve is a hit only on an entry whose age is below its ttl; on an
\* entry whose age has reached the ttl it erases the entry, counts a miss and
\* no hit, and goes to the resolver, which it then calls.
C29_ServedOnlyWithinTtl ==
    [][\A t \in Resolvers :
         /\ (/\ dc'.last.op = "resolve" /\ dc'.last.t = t
             /\ dc'.hits + dc'.misses = dc.hits + dc.misses + 1)
            => LET key == make_key(dc'.last.host, dc'.last.port) IN
               /\ dc'.hits = dc.hits + 1 =>
                    /\ key \in DOMAIN dc.cache
                    /\ dc.clock - dc.cache[key].cached_at < dc.cache[key].ttl
                    /\ dc'.last.ret = dc.cache[key].addresses
               /\ (/\ key \in DOMAIN dc.cache
                   /\ dc.clock - dc.cache[key].cached_at >= dc.cache[key].ttl)
                    => /\ key \notin DOMAIN dc'.cache
                       /\ dc'.misses = dc.misses + 1
                       /\ dc'.hits = dc.hits
                       /\ dc'.th[t].pc = "resolving"
         /\ (dc.th[t].pc = "resolving" /\ dc'.th[t].pc = "idle" /\ dc'.pc = "on")
            => dc'.calls = dc.calls + 1]_vars

\* a resolve found an entry stored ttl seconds or more before, with a ttl
\* above zero, erased it and is on its way to the resolver
C29_Witness ==
    \E t \in Resolvers :
        LET key == make_key(dc.last.host, dc.last.port) IN
        /\ dc.last.op = "resolve" /\ dc.last.t = t
        /\ dc.th[t].pc = "resolving"
        /\ dc.ttl > 0
        /\ key \in DOMAIN dc.stored
        /\ key \notin DOMAIN dc.cache
        /\ dc.clock - dc.stored[key].cached_at >= dc.ttl
        /\ dc.misses = 2

(***************************************************************************)
(* HTTPClient::set_max_connections.  The pool is built with the capacity   *)
(* of HTTPClient::Impl's constructor, which MaxConnections stands for.     *)
(***************************************************************************)
\* the values set_max_connections is called with
MaxAsked == 1..(MaxConnections + 1)

\* HTTPClient::set_max_connections(max): the body is empty; the pool keeps
\* the capacity it was built with
SetMaxConnections(max) ==
    /\ ~destroyed
    /\ maxAsked' = max
    /\ lastOp' = NoOp
    /\ UNCHANGED <<fdt, badClose, conns, pools, ex, destroyed>>

restOfConfig == <<rt, bt, rd, dl, he, rl, dc, ck, ur, sx>>

ConfigNext ==
    \/ /\ UNCHANGED restOfPool
       /\ \/ \E u \in Urls : Start(1, u, FALSE, 0)
          \/ \E n \in 0..MaxAddrs : PoolAcquire(1, n)
          \/ DialSocket(1)
          \/ \E ok \in BOOLEAN : DialPoll(1, ok)
          \/ \E ok \in BOOLEAN : TlsHandshake(1, ok)
          \/ \E w \in {"failed", "all"} : Send(1, w, IF w = "all" THEN 200 ELSE 0, NoUrl)
          \/ PoolRelease(1)
          \/ \E f \in Fds : PeerClose(f)
    \/ /\ UNCHANGED restOfConfig
       /\ \E max \in MaxAsked : SetMaxConnections(max)

ConfigSpec == Init /\ [][ConfigNext]_vars

\* C30: after set_max_connections(m), a release leaves at most m entries in
\* the pool: made when m are pooled already, it closes the connection
\* instead of pooling it.
C30_SetMaxConnectionsLimits ==
    (maxAsked > 0 /\ lastOp.op = "release" /\ ~lastOp.atCap) =>
        TotalConns(pools) <= maxAsked

(***************************************************************************)
(* What execute_request does with the connection after read_response.      *)
(* parse_response gives status 0 to the bytes of a read that ended before  *)
(* the header block was complete: read_response left its loop by the       *)
(* inactivity timeout, by a receive error or by the peer's close.          *)
(***************************************************************************)
\* C31: a connection whose response read ended before the response was
\* complete (status 0 after a request that was sent) is not in the pool
\* after the release that follows.
C31_FailedReadNotPooled ==
    (lastOp.op = "release" /\ ex[1].pc = "done" /\ ex[1].status = 0) =>
        lastOp.conn \notin Range(pools[lastOp.key])

\* C32: a request whose header block or body was not written in full (the
\* send failed or was short) returns without reading a response: it never
\* stands before the release that follows read_response.
C32_ShortWriteStopsRequest ==
    ex[1].pc = "release" => ex[1].wrote = "all"

\* the part of C32 that the test of sent < 0 gives: after "send_failed" the
\* invocation has returned status 0, with that one error kind and no request
\* recorded
C32_SendErrorRecordedOnce ==
    ("send_failed" \in Range(ex[1].errors)) =>
        /\ ex[1].pc = "done" /\ ex[1].status = 0
        /\ ex[1].errors = <<"send_failed">>
        /\ ex[1].requests = 0

(***************************************************************************)
(* TLSConnection::recv under read_response.                                *)
(***************************************************************************)
\* C33: read_response does not end on a recv that returned 0 for WANT_READ
\* or WANT_WRITE: it reads again.
C33_WantReadIsRetried ==
    rd.pc = "done" => rd.layer # "want"

(***************************************************************************)
(* The Transfer-Encoding header in read_response and in parse_response.    *)
(***************************************************************************)
\* C34: however the server spells the header's name, a response that
\* read_response took for chunked is de-chunked by parse_response: the body
\* returned is the decoded one, with no chunk-size line in it.
C34_ReaderAndParserAgree ==
    (ck.pc = "done" /\ ck.chunked) =>
        ck.parsed = Dechunk(SubSeq(ck.stream, 1, ck.received))

\* with the name spelled as the parser looks it up, the two agree
C34_AgreeOnExactName ==
    (ck.pc = "done" /\ ck.name = TransferEncoding) =>
        ck.parsed = Dechunk(SubSeq(ck.stream, 1, ck.received))

(***************************************************************************)
(* Transport setup failures of execute_request: the step that takes the    *)
(* executor from the acquire, the address loop or the TLS handshake        *)
(* straight to its return.                                                 *)
(***************************************************************************)
SetupFails == ex[1].pc \in {"acquire", "dial", "poll", "tls"} /\ ex'[1].pc = "done"

\* status 0, one error kind (that of the step that failed), no connection
\* recorded as created, no request recorded
SetupFailureRecorded ==
    /\ ex'[1].status = 0
    /\ ex'[1].errors = <<IF ex[1].pc = "tls" THEN "tls_handshake_failed"
                         ELSE "connection_failed">>
    /\ ex'[1].created = 0
    /\ ex'[1].requests = 0

\* C35 as stated: a failed transport setup returns status 0, records one
\* error kind, no created connection and no request, and the pool's
\* contents are what they were when execute_request was entered.
C35_SetupFailureLeavesPool ==
    [][SetupFails =>
          /\ SetupFailureRecorded
          /\ pools' = pools
          /\ ~ex'[1].evicted]_vars

\* C35, amended: the same, except that the pool's contents are what the
\* call's own acquire left: the acquire may have closed and removed dead idle
\* connections of the request's key, and nothing is added or removed after it.
C35_SetupFailureAddsNothing ==
    [][SetupFails =>
          /\ SetupFailureRecorded
          /\ ex[1].pc # "acquire" => pools' = pools
          /\ \A k \in Keys :
                /\ Len(pools'[k]) <= Len(pools[k])
                /\ Range(pools'[k]) \subseteq Range(pools[k])
                /\ k # KeyOfReq(ex[1]) => pools'[k] = pools[k]]_vars

\* the TLS handshake failed on a connection dialled after the acquire had
\* taken a dead connection out of the pool
C35_Witness ==
    /\ ex[1].pc = "done"
    /\ ex[1].status = 0
    /\ ex[1].errors = <<"tls_handshake_failed">>
    /\ ex[1].evicted
    /\ ex[1].created = 0 /\ ex[1].requests = 0

(***************************************************************************)
(* Statistics::record_request by concurrent threads, one step per atomic   *)
(* operation on total_requests_, min_latency_ms_ and max_latency_ms_ (the  *)
(* sums of bytes and latencies are fetch-adds like total_requests_++).     *)
(* pc: idle, count, loadmin, casmin, loadmax, casmax.                      *)
(***************************************************************************)
Recorders == 1..NumRecorders

Latencies == 0..MaxLatency

\* the store is made without comparing
ExchangeBlind(actual, expected, desired, spurious) ==
    [ok |-> TRUE, value |-> desired, expected |-> expected]

\* a.compare_exchange_weak(expected, desired): stores desired when a holds
\* expected, unless it fails spuriously; on failure expected becomes a's value
CompareExchangeWeak(actual, expected, desired, spurious) ==
    IF actual = expected /\ ~spurious
    THEN [ok |-> TRUE, value |-> desired, expected |-> expected]
    ELSE [ok |-> FALSE, value |-> actual, expected |-> actual]

\* a thread enters record_request(latency, bytes)
RecordRequest(t, lat) ==
    /\ sx.th[t].pc = "idle"
    /\ sx.calls < MaxRecords
    /\ sx' = [sx EXCEPT !.th[t] = [pc |-> "count", lat |-> lat, cur |-> 0],
                        !.calls = @ + 1, !.lats = @ \cup {lat}]

\* total_requests_++
CountRequest(t) ==
    /\ sx.th[t].pc = "count"
    /\ sx' = [sx EXCEPT !.total = @ + 1, !.th[t].pc = "loadmin"]

\* cur_min = min_latency_ms_.load()
LoadMin(t) ==
    /\ sx.th[t].pc = "loadmin"
    /\ sx' = [sx EXCEPT !.th[t].cur = sx.min, !.th[t].pc = "casmin"]

\* one test of the first loop: lat_ms < cur_min && !compare_exchange_weak
CasMin(t, spurious) ==
    /\ sx.th[t].pc = "casmin"
    /\ LET me == sx.th[t]
           r == CompareExchangeWeak(sx.min, me.cur, me.lat, spurious)
       IN IF me.lat < me.cur
          THEN sx' = [sx EXCEPT !.min = r.value, !.th[t].cur = r.expected,
                                !.th[t].pc = IF r.ok THEN "loadmax" ELSE "casmin",
                                !.raced = @ \/ sx.min # me.cur]
          ELSE /\ ~spurious
               /\ sx' = [sx EXCEPT !.th[t].pc = "loadmax"]

\* cur_max = max_latency_ms_.load()
LoadMax(t) ==
    /\ sx.th[t].pc = "loadmax"
    /\ sx' = [sx EXCEPT !.th[t].cur = sx.max, !.th[t].pc = "casmax"]

\* one test of the second loop: lat_ms > cur_max && !compare_exchange_weak;
\* after it record_request returns
CasMax(t, spurious) ==
    /\ sx.th[t].pc = "casmax"
    /\ LET me == sx.th[t]
           r == CompareExchangeWeak(sx.max, me.cur, me.lat, spurious)
       IN IF me.lat > me.cur
          THEN sx' = [sx EXCEPT !.max = r.value, !.th[t].cur = r.expected,
                                !.th[t].pc = IF r.ok THEN "idle" ELSE "casmax",
                                !.raced = @ \/ sx.max # me.cur]
          ELSE /\ ~spurious
               /\ sx' = [sx EXCEPT !.th[t].pc = "idle"]

restOfStats == <<fdt, badClose, conns, pools, ex, destroyed, lastOp, rt, bt, rd, dl, he, rl, dc, ck, ur, maxAsked>>

StatsNext ==
    /\ UNCHANGED restOfStats
    /\ \/ \E t \in Recorders, lat \in Latencies : RecordRequest(t, lat)
       \/ \E t \in Recorders : CountRequest(t)
       \/ \E t \in Recorders : LoadMin(t)
       \/ \E t \in Recorders, spurious \in BOOLEAN : CasMin(t, spurious)
       \/ \E t \in Recorders : LoadMax(t)
       \/ \E t \in Recorders, spurious \in BOOLEAN : CasMax(t, spurious)

StatsSpec == Init /\ [][StatsNext]_vars

\* every call of record_request has returned
AllRecorded == \A t \in Recorders : sx.th[t].pc = "idle"

\* C36: once every call has returned, whatever the interleaving, the minimum
\* is the least latency recorded, the maximum the greatest and
\* total_requests the number of calls.
C36_NoLostUpdate ==
    (AllRecorded /\ sx.calls > 0) =>
        /\ sx.total = sx.calls
        /\ sx.min \in sx.lats /\ \A l \in sx.lats : sx.min <= l
        /\ sx.max \in sx.lats /\ \A l \in sx.lats : sx.max >= l

\* three calls with three latencies have returned, and a compare_exchange of
\* one of them found the value changed by another thread
C36_Witness ==
    /\ AllRecorded
    /\ sx.calls = MaxRecords
    /\ Cardinality(sx.lats) = 3
    /\ sx.raced

(***************************************************************************)
(* The delays execute_with_retry sleeps.                                   *)
(***************************************************************************)
\* C37: the sleep after the k-th failed attempt is retry_delay * 2^(k-1) with
\* exponential_backoff and retry_delay without, for every k up to
\* max_retries; it is above zero.
C37_BackoffDoubles ==
    \A k \in 1..Len(rt.sleeps) :
        /\ rt.sleeps[k] > 0
        /\ rt.sleeps[k] = IF rt.backoff THEN rt.delay * 2 ^ (k - 1) ELSE rt.delay

\* the same for the attempts whose shift stays below the sign bit
C37_BackoffDoublesBelowSignBit ==
    \A k \in 1..Len(rt.sleeps) :
        k <= IntBits =>
            /\ rt.sleeps[k] > 0
            /\ rt.sleeps[k] = IF rt.backoff THEN rt.delay * 2 ^ (k - 1) ELSE rt.delay

(***************************************************************************)
(* The entries of the pool's lists.                                        *)
(***************************************************************************)
\* C38: a connection is listed at most once: no list holds it twice and no
\* two lists hold it, so the number of entries is the number of connections
\* pooled.
C38_PooledAtMostOnce ==
    /\ \A k \in Keys : \A i, j \in 1..Len(pools[k]) :
           i # j => pools[k][i] # pools[k][j]
    /\ \A k, l \in Keys : k # l => Range(pools[k]) \cap Range(pools[l]) = {}
    /\ TotalConns(pools) = Cardinality(UNION {Range(pools[k]) : k \in Keys})

(***************************************************************************)
(* Callers waiting in RateLimiter::acquire.                                *)
(***************************************************************************)
\* C39: a caller that waits in acquire's loop on a rate above zero can be
\* served: refill is able to push a token once an interval has passed, that
\* is, burst_ is at least one.
C39_WaitingCallerCanBeServed ==
    \A t \in Callers :
        (rl.pc = "on" /\ rl.callers[t] = "sleep" /\ Limited(rl.rate)) => rl.burst > 0

\* with burst_ zero the deque stays empty whatever time passes: no turn of
\* the loop finds a token
C39_NoTokenWithoutBurst ==
    (rl.pc = "on" /\ rl.burst = 0) => rl.tokens = 0

(***************************************************************************)
(* The outer loop of batch_request.                                        *)
(***************************************************************************)
\* C40: whatever the request list and max_parallel, every turn of the outer
\* loop launches or collects a request: the loop never goes round with
\* nothing done.
C40_LoopLaunchesOrCollects ==
    bt.spins = 0

\* with max_parallel other than zero every turn launches or collects
C40_ProgressUnlessZero ==
    bt.p # 0 => bt.spins = 0

====
